---- MODULE Spec2Model ----
(***************************************************************************)
(* Model of the image-app backend: the request handlers of routes/image.ts *)
(* (upload, process, delete), the MetadataStore and StorageService of      *)
(* services/, and the cleanup job of server.ts.                            *)
(*                                                                         *)
(* The backend is one Node.js process.  Every `await` of a handler is a    *)
(* suspension point: the code between two awaits runs atomically, and the  *)
(* handlers of different requests, the cleanup job and the unawaited       *)
(* MetadataStore.initialize() interleave at their awaits.  One action      *)
(* below is one such atomic piece: the completion of the awaited I/O       *)
(* followed by the synchronous continuation up to the next await.          *)
(***************************************************************************)
EXTENDS Integers, FiniteSets, Sequences, TLC

(* ---- bounds of the model ---- *)
MaxUuid == 2        \* number of uuidv4() values drawn (file names 1..MaxUuid)
MaxReq  == 2        \* number of requests in flight at the same time
MaxTime == 2        \* the clock stops at this tick
MaxOps  == 4        \* longest operation list given to the pipeline
MaxFlips == 1       \* bytes changed in a sample buffer given to the validator
MaxName == 4        \* longest originalname of an uploaded file, in characters

(* ---- configuration (utils/config.ts), scaled ---- *)
Ttl   == 1          \* cleanupTtlHours, in clock ticks
Quota == 4          \* maxDiskQuota, in size units

UploadSizes == {1}      \* byte sizes an uploaded file may have
OutSize     == 2        \* byte size of an encoded output

Req == 1..MaxReq

NoFile == 0 - 1             \* "no path" (undefined processedPath, no file)
NoRef  == <<"none", NoFile>> \* "no object"

(* The operation lists a process request may carry. *)
OpLists == << <<>>, <<[type |-> "convert", format |-> "png"]>> >>
NoOps == 0                  \* operations undefined; otherwise an index of OpLists

VARIABLES
  now,       \* Date.now()
  nextUuid,  \* the next value uuidv4() returns
  rawFiles,  \* files of <uploadDir>/raw:       name -> [size, mtime]
  procFiles, \* files of <uploadDir>/processed: name -> [size, mtime]
  snapshot,  \* <uploadDir>/metadata.json: [state, records]
  heap,      \* the ImageMetadata objects: reference -> fields
  cache,     \* MetadataStore.cache: fileId -> reference
  init,      \* MetadataStore.initialize(), started unawaited by the constructor
  server,    \* startServer() of server.ts: "starting" or "listening"
  sweep,     \* the cleanup job of server.ts
  req,       \* the request handlers in flight
  last,      \* the latest answer given: [kind, status]
  boot,      \* history: the state of metadata.json when the process started
  deleted,   \* history: fileIds for which a DELETE has answered 204
  rejected,  \* history: raw files of uploads answered 507
  call       \* a function of the program called on its own: [fn, arg, pc, out]

vars == <<now, nextUuid, rawFiles, procFiles, snapshot, heap, cache, init, server,
          sweep, req, last, boot, deleted, rejected, call>>

(* ---- files and directories ---- *)
(* A file is [size, mtime, src]; src is history: the fileId of the upload  *)
(* the file's content comes from.                                          *)
EmptyDir == [n \in {} |-> [size |-> 0, mtime |-> 0, src |-> 0]]

WriteTo(dir, name, size, src) ==
  (name :> [size |-> size, mtime |-> now, src |-> src]) @@ dir

Unlink(dir, name) == [n \in (DOMAIN dir) \ {name} |-> dir[n]]

RECURSIVE DirBytes(_)
DirBytes(dir) ==
  IF DOMAIN dir = {} THEN 0
  ELSE LET n == CHOOSE m \in DOMAIN dir : TRUE
       IN dir[n].size + DirBytes(Unlink(dir, n))

(* Size of metadata.json, which lies in uploadDir: one unit per record; an *)
(* unparsable file has some content.                                       *)
SnapshotBytes ==
  CASE snapshot.state = "absent"  -> 0
    [] snapshot.state = "corrupt" -> 1
    [] snapshot.state = "valid"   -> Cardinality(snapshot.records)

(* ---- records ---- *)
NewRecord(f, originalName, size, mimeType) ==
  [fileId |-> f, originalName |-> originalName, size |-> size,
   mimeType |-> mimeType, rawPath |-> f,
   timestamp |-> now, processedPath |-> NoFile, operations |-> NoOps]

(* Array.from(cache.values()) of a cache c over the objects h.              *)
CacheValues(h, c) == {h[c[id]] : id \in DOMAIN c}

Valid(records) == [state |-> "valid", records |-> records]

(* ---- the state at process start ---- *)
OldRecord == [fileId |-> 0, originalName |-> "old.jpg", size |-> 1,
              mimeType |-> "image/jpeg",
              rawPath |-> 0, timestamp |-> 0,
              processedPath |-> NoFile, operations |-> NoOps]

ReqIdle == [pc |-> "idle", kind |-> "none", id |-> NoFile, file |-> NoFile,
            originalname |-> "", mimetype |-> "", sigOk |-> FALSE, meta |-> NoRef, out |-> NoFile,
            ops |-> NoOps, content |-> {}]

(* No function is called on its own: the server runs.                      *)
NoCall == [fn |-> "none", arg |-> <<>>, pc |-> "none", out |-> <<>>]

(* expired is history: the fileIds whose record was older than the TTL     *)
(* when the run started.                                                   *)
SweepIdle == [pc |-> "idle", now |-> 0, todo |-> {}, expired |-> {}]

(* The process starts with an empty upload directory, or with the raw file *)
(* and the metadata.json (readable or not) of an earlier run, which by now *)
(* are older than the TTL.                                                 *)
Init ==
  /\ now = Ttl + 1
  /\ nextUuid = 1
  /\ \/ /\ snapshot = [state |-> "absent", records |-> {}]
        /\ rawFiles = EmptyDir
     \/ /\ snapshot \in {Valid({OldRecord}), [state |-> "corrupt", records |-> {}]}
        /\ rawFiles = (0 :> [size |-> 1, mtime |-> 0, src |-> 0])
  /\ procFiles = EmptyDir
  /\ heap = [x \in {} |-> OldRecord]
  /\ cache = [x \in {} |-> NoRef]
  /\ init = [pc |-> "reading", content |-> {}]
  /\ server = "starting"
  /\ sweep = SweepIdle
  /\ req = [r \in Req |-> ReqIdle]
  /\ last = [kind |-> "none", status |-> 0]
  /\ boot = snapshot.state
  /\ deleted = {}
  /\ rejected = {}
  /\ call = NoCall

(* ---- fs.writeFile(metadataPath, ...) ---- *)
(* Number of writes of metadata.json in progress.                          *)
WritesInFlight ==
  Cardinality({r \in Req : req[r].pc = "saving"})
    + (IF init.pc = "saving" THEN 1 ELSE 0)

(* The contents of the writes of metadata.json in progress.                *)
ContentsInFlight ==
  {req[r].content : r \in {q \in Req : req[q].pc = "saving"}}
    \cup (IF init.pc = "saving" THEN {init.content} ELSE {})

(* The file when a writeFile of `content` resolves.  A writeFile that      *)
(* overlaps a writeFile of other content to the same path is a data race   *)
(* on the file (each truncates it and writes from offset 0): the file then *)
(* holds the content or an unparsable mix of the two.                      *)
WriteFileOutcomes(content) ==
  IF ContentsInFlight \ {content} # {}
  THEN {Valid(content), [state |-> "corrupt", records |-> {}]}
  ELSE {Valid(content)}

(* ---- MetadataStore.initialize ---- *)
InitRead ==
  /\ init.pc = "reading"
  /\ \/ /\ snapshot.state = "valid"
        /\ LET ids == {rec.fileId : rec \in snapshot.records}
               Rec(id) == CHOOSE rec \in snapshot.records : rec.fileId = id
           IN /\ heap' = [x \in {<<"load", id>> : id \in ids} |-> Rec(x[2])] @@ heap
              /\ cache' = [id \in ids |-> <<"load", id>>] @@ cache
        /\ init' = [init EXCEPT !.pc = "done"]
     \/ /\ snapshot.state = "absent"
        /\ init' = [pc |-> "saving", content |-> CacheValues(heap, cache)]
        /\ UNCHANGED <<heap, cache>>
     \/ /\ snapshot.state = "corrupt"
        /\ init' = [init EXCEPT !.pc = "done"]
        /\ UNCHANGED <<heap, cache>>
  /\ UNCHANGED <<now, nextUuid, rawFiles, procFiles, snapshot, server, sweep,
                 req, last, boot, call, deleted, rejected>>

InitSaved ==
  /\ init.pc = "saving"
  /\ snapshot' \in WriteFileOutcomes(init.content)
  /\ init' = [pc |-> "done", content |-> {}]
  /\ UNCHANGED <<now, nextUuid, rawFiles, procFiles, heap, cache, server,
                 sweep, req, last, boot, call, deleted, rejected>>

(* ---- startServer ---- *)
(* storage.initialize() has resolved; the cleanup timer is set and the     *)
(* server listens.  Nothing awaits MetadataStore.initialize().             *)
StartServer ==
  /\ server = "starting"
  /\ server' = "listening"
  /\ UNCHANGED <<now, nextUuid, rawFiles, procFiles, snapshot, heap, cache,
                 init, sweep, req, last, boot, call, deleted, rejected>>

(* ---- request slots ---- *)
FileIds == 0..MaxUuid       \* the fileIds a request may name

(* A request starts in the lowest free slot (slots are interchangeable).   *)
Free(r) ==
  /\ server = "listening"
  /\ req[r].pc = "idle"
  /\ \A q \in Req : q < r => req[q].pc # "idle"

(* The handler of slot r has answered with `status`: the slot is free, and  *)
(* `last` is the latest answer given.                                      *)
Answer(r, status) ==
  /\ req' = [req EXCEPT ![r] = ReqIdle]
  /\ last' = [kind |-> req[r].kind, status |-> status]

(* What a missing property or an absent result reads as.                   *)
Undefined == "undefined"

(* ---- validateFileSignature (utils/validation.ts) ---- *)
MAGIC_BYTES ==
  [x \in {"image/jpeg", "image/png", "image/webp", "image/gif"} |->
     CASE x = "image/jpeg" -> << <<255, 216, 255>> >>
       [] x = "image/png"  -> << <<137, 80, 78, 71, 13, 10, 26, 10>> >>
       [] x = "image/webp" -> << <<82, 73, 70, 70>> >>
       [] x = "image/gif"  -> << <<71, 73, 70, 56>> >>]

(* config.allowedMimeTypes, by default.                                    *)
AllowedMimeTypes == {"image/jpeg", "image/png", "image/webp", "image/gif"}

(* check(header, {offset}) of file-type: the buffer holds `header` from    *)
(* `offset` on.                                                            *)
Check(buffer, header, offset) ==
  /\ Len(buffer) >= offset + Len(header)
  /\ \A i \in 1..Len(header) : buffer[offset + i] = header[i]

(* fromBuffer of the file-type library, for the types met here: bmp by     *)
(* "BM", gif by "GIF", jpeg by FF D8 FF, png by its 8 bytes, webp by       *)
(* "WEBP" at offset 8; no result for a buffer of fewer than 2 bytes or an  *)
(* unknown one.                                                            *)
FromBuffer(buffer) ==
  CASE Len(buffer) <= 1                        -> Undefined
    [] Check(buffer, <<66, 77>>, 0)            -> "image/bmp"
    [] Check(buffer, <<71, 73, 70>>, 0)        -> "image/gif"
    [] Check(buffer, <<255, 216, 255>>, 0)     -> "image/jpeg"
    [] Check(buffer, <<137, 80, 78, 71, 13, 10, 26, 10>>, 0) -> "image/png"
    [] Check(buffer, <<87, 69, 66, 80>>, 8)    -> "image/webp"
    [] OTHER                                   -> Undefined

(* The inner loop: bytes i.. of the signature against the buffer; a byte   *)
(* past the end of the buffer reads as undefined and differs.              *)
RECURSIVE SignatureMatches(_, _, _)
SignatureMatches(buffer, signature, i) ==
  IF i > Len(signature) THEN TRUE
  ELSE IF i > Len(buffer) \/ buffer[i] # signature[i] THEN FALSE
  ELSE SignatureMatches(buffer, signature, i + 1)

(* A faulty variant of ValidateFileSignature: the sniffed type alone       *)
(* decides, the leading bytes are not compared.                            *)
ValidateSniffOnly(buffer) ==
  LET mime == FromBuffer(buffer)
  IN mime # Undefined /\ mime \in AllowedMimeTypes

ValidateFileSignature(buffer) ==
  LET mime == FromBuffer(buffer)
  IN IF mime = Undefined THEN FALSE
     ELSE IF mime \notin AllowedMimeTypes THEN FALSE
     ELSE IF mime \notin DOMAIN MAGIC_BYTES THEN FALSE
     ELSE \E k \in 1..Len(MAGIC_BYTES[mime]) :
            SignatureMatches(buffer, MAGIC_BYTES[mime][k], 1)

(* The buffers given to the validator: a sample file of each type, their   *)
(* prefixes, and the samples with up to MaxFlips bytes changed.            *)
Samples ==
  { <<255, 216, 255, 224, 0, 16, 0, 0, 0, 0, 0, 0>>,
    <<137, 80, 78, 71, 13, 10, 26, 10, 0, 0, 0, 13>>,
    <<82, 73, 70, 70, 26, 0, 0, 0, 87, 69, 66, 80>>,
    <<71, 73, 70, 56, 57, 0, 0, 0, 0, 0, 0, 0>>,
    <<66, 77, 0, 0, 0, 0, 0, 0, 0, 0, 0, 0>>,
    <<37, 80, 68, 70, 0, 0, 0, 0, 0, 0, 0, 0>> }

SampleBytes == UNION {{b[i] : i \in 1..Len(b)} : b \in Samples}

OneFlip(S) ==
  S \cup {[b EXCEPT ![i] = v] : b \in S, i \in 1..12, v \in SampleBytes}

RECURSIVE Flipped(_, _)
Flipped(S, n) == IF n = 0 THEN S ELSE Flipped(OneFlip(S), n - 1)

Buffers ==
  Flipped(Samples, MaxFlips)
    \cup {SubSeq(b, 1, n) : b \in Samples, n \in 0..12}

(* ---- StorageService.checkDiskQuota ---- *)
CalculateDirectorySize ==
  DirBytes(rawFiles) + DirBytes(procFiles) + SnapshotBytes

CheckDiskQuota == CalculateDirectorySize < Quota

(* ---- POST /upload ---- *)
(* multer's fileFilter refuses a declared type outside the allow-list.     *)
FileFilter(file) == file.mimetype \in AllowedMimeTypes

(* The files clients upload, [originalname, mimetype, buffer]: the name and *)
(* the type the client declares, and the bytes.  A specification that studies the handler on one kind of file    *)
(* holds it in `call`; otherwise a jpeg declared as such and a file that   *)
(* is no image.                                                            *)
UploadedFiles ==
  IF call.fn = "upload" THEN {call.arg}
  ELSE {[originalname |-> "photo.jpg", mimetype |-> "image/jpeg",
         buffer |-> <<255, 216, 255, 224, 0, 16, 0, 0, 0, 0, 0, 0>>],
        [originalname |-> "photo.jpg", mimetype |-> "image/jpeg",
         buffer |-> <<37, 80, 68, 70, 0, 0, 0, 0, 0, 0, 0, 0>>]}

(* multer's diskStorage has written the file under a fresh uuid before the *)
(* handler runs; the handler then awaits checkDiskQuota().  A file the     *)
(* fileFilter refuses is not written and the request fails (500).          *)
UploadStart(r) ==
  /\ Free(r)
  /\ nextUuid <= MaxUuid
  /\ \E size \in UploadSizes, file \in UploadedFiles :
       IF FileFilter(file)
       THEN /\ rawFiles' = WriteTo(rawFiles, nextUuid, size, nextUuid)
            /\ req' = [req EXCEPT ![r] =
                 [ReqIdle EXCEPT !.pc = "quota", !.kind = "upload",
                                 !.id = nextUuid, !.file = nextUuid,
                                 !.originalname = file.originalname,
                                 !.mimetype = file.mimetype,
                                 !.sigOk = ValidateFileSignature(file.buffer)]]
            /\ nextUuid' = nextUuid + 1
            /\ UNCHANGED last
       ELSE /\ last' = [kind |-> "upload", status |-> 500]
            /\ UNCHANGED <<rawFiles, req, nextUuid>>
  /\ UNCHANGED <<now, procFiles, snapshot, heap, cache, init, server, sweep,
                 boot, call, deleted, rejected>>

(* A request without a file part: AppError 400.                            *)
UploadNoFile(r) ==
  /\ Free(r)
  /\ last' = [kind |-> "upload", status |-> 400]
  /\ UNCHANGED <<now, nextUuid, rawFiles, procFiles, snapshot, heap, cache,
                 init, server, sweep, req, boot, call, deleted, rejected>>

(* checkDiskQuota() has resolved.                                          *)
UploadQuota(r) ==
  /\ req[r].pc = "quota"
  /\ req' = [req EXCEPT ![r].pc =
       IF CheckDiskQuota THEN "validate" ELSE "quotaUnlink"]
  /\ UNCHANGED <<now, nextUuid, rawFiles, procFiles, snapshot, heap, cache,
                 init, server, sweep, last, boot, call, deleted, rejected>>

(* A faulty variant of UploadQuotaUnlink: the rejected upload's file stays. *)
UploadQuotaKeepsFile(r) ==
  /\ req[r].pc = "quotaUnlink"
  /\ rejected' = rejected \cup {req[r].file}
  /\ Answer(r, 507)
  /\ UNCHANGED <<now, nextUuid, rawFiles, procFiles, snapshot, heap, cache,
                 init, server, sweep, boot, call, deleted>>

(* deleteFile(req.file.path) has resolved; AppError 507.                   *)
UploadQuotaUnlink(r) ==
  /\ req[r].pc = "quotaUnlink"
  /\ rawFiles' = Unlink(rawFiles, req[r].file)
  /\ rejected' = rejected \cup {req[r].file}
  /\ Answer(r, 507)
  /\ UNCHANGED <<now, nextUuid, procFiles, snapshot, heap, cache, init, server,
                 sweep, boot, call, deleted>>

(* readFile and validateFileSignature have resolved; on a valid signature  *)
(* metadata.set runs up to the await of its save().                        *)
UploadValidate(r) ==
  /\ req[r].pc = "validate"
  /\ IF req[r].file \notin DOMAIN rawFiles
     THEN /\ Answer(r, 500)
          /\ UNCHANGED <<heap, cache>>
     ELSE IF ~req[r].sigOk
     THEN /\ req' = [req EXCEPT ![r].pc = "invalidUnlink"]
          /\ UNCHANGED <<heap, cache, last>>
     ELSE LET ref == <<"upload", req[r].file>>
              heap2 == (ref :> NewRecord(req[r].file,
                                         req[r].originalname,
                                         rawFiles[req[r].file].size,
                                         req[r].mimetype)) @@ heap
              cache2 == (req[r].id :> ref) @@ cache
          IN /\ heap' = heap2
             /\ cache' = cache2
             /\ req' = [req EXCEPT ![r].pc = "saving", ![r].meta = ref,
                  ![r].content = CacheValues(heap2, cache2)]
             /\ UNCHANGED last
  /\ UNCHANGED <<now, nextUuid, rawFiles, procFiles, snapshot, init, server, sweep,
                 boot, call, deleted, rejected>>

(* A faulty variant of UploadInvalidUnlink: the refused upload's file stays. *)
UploadInvalidKeepsFile(r) ==
  /\ req[r].pc = "invalidUnlink"
  /\ Answer(r, 400)
  /\ UNCHANGED <<now, nextUuid, rawFiles, procFiles, snapshot, heap, cache,
                 init, server, sweep, boot, call, deleted, rejected>>

(* deleteFile(req.file.path) has resolved; AppError 400.                   *)
UploadInvalidUnlink(r) ==
  /\ req[r].pc = "invalidUnlink"
  /\ rawFiles' = Unlink(rawFiles, req[r].file)
  /\ Answer(r, 400)
  /\ UNCHANGED <<now, nextUuid, procFiles, snapshot, heap, cache, init, server,
                 sweep, boot, call, deleted, rejected>>

(* The save() of metadata.set has resolved; 201.                           *)
UploadSaved(r) ==
  /\ req[r].pc = "saving"
  /\ req[r].kind = "upload"
  /\ snapshot' \in WriteFileOutcomes(req[r].content)
  /\ Answer(r, 201)
  /\ UNCHANGED <<now, nextUuid, rawFiles, procFiles, heap, cache, init, server,
                 sweep, boot, call, deleted, rejected>>

(* ---- POST /process ---- *)
(* A fileId is a string: the name of a file id.                            *)
FileName(id) == ToString(id)

IdOf(name) == CHOOSE id \in FileIds : FileName(id) = name

(* !fileId || !operations || !Array.isArray(operations), for a body        *)
(* [fileId, operations] whose operations is [kind, val], of kind "list"    *)
(* (an array, val), "undefined" (absent) or "object" (a value that is      *)
(* truthy and no array).                                                   *)
InvalidBody(body) ==
  \/ body.fileId \in {Undefined, ""}
  \/ body.operations.kind = "undefined"
  \/ body.operations.kind # "list"

(* The bodies clients send, the list of operations being an index of       *)
(* OpLists.  A specification that studies the handler on one body holds it *)
(* in `call`; otherwise every fileId with every list, and an empty body.   *)
RequestBodies ==
  IF call.fn = "processRequest" THEN {call.arg}
  ELSE {[fileId |-> FileName(id), operations |-> [kind |-> "list", val |-> o]] :
          id \in FileIds, o \in 1..Len(OpLists)}
       \cup {[fileId |-> Undefined,
               operations |-> [kind |-> "undefined", val |-> NoOps]]}

(* A faulty variant of ProcessStart: the record is looked up before the    *)
(* body is checked.                                                        *)
ProcessStartLooksUpFirst(r) ==
  /\ Free(r)
  /\ \E body \in RequestBodies :
       IF body.fileId \notin {Undefined, ""} /\ IdOf(body.fileId) \notin DOMAIN cache
       THEN /\ last' = [kind |-> "process", status |-> 404]
            /\ UNCHANGED req
       ELSE IF InvalidBody(body)
       THEN /\ last' = [kind |-> "process", status |-> 400]
            /\ UNCHANGED req
       ELSE /\ nextUuid <= MaxUuid
            /\ req' = [req EXCEPT ![r] =
                 [ReqIdle EXCEPT !.pc = "access", !.kind = "process",
                                 !.id = IdOf(body.fileId),
                                 !.meta = cache[IdOf(body.fileId)],
                                 !.ops = body.operations.val]]
            /\ UNCHANGED last
  /\ UNCHANGED <<now, nextUuid, rawFiles, procFiles, snapshot, heap, cache,
                 init, server, sweep, boot, call, deleted, rejected>>

(* The body is validated, then metadata.get(fileId); on a hit the handler  *)
(* awaits fs.access.                                                       *)
ProcessStart(r) ==
  /\ Free(r)
  /\ \E body \in RequestBodies :
       IF InvalidBody(body)
       THEN /\ last' = [kind |-> "process", status |-> 400]
            /\ UNCHANGED req
       ELSE IF IdOf(body.fileId) \notin DOMAIN cache
       THEN /\ last' = [kind |-> "process", status |-> 404]
            /\ UNCHANGED req
       ELSE /\ nextUuid <= MaxUuid
            /\ req' = [req EXCEPT ![r] =
                 [ReqIdle EXCEPT !.pc = "access", !.kind = "process",
                                 !.id = IdOf(body.fileId),
                                 !.meta = cache[IdOf(body.fileId)],
                                 !.ops = body.operations.val]]
            /\ UNCHANGED last
  /\ UNCHANGED <<now, nextUuid, rawFiles, procFiles, snapshot, heap, cache,
                 init, server, sweep, boot, call, deleted, rejected>>

(* fs.access(meta.rawPath) has resolved; the output name is generated and  *)
(* processor.processImage is awaited.                                      *)
ProcessAccess(r) ==
  /\ req[r].pc = "access"
  /\ IF heap[req[r].meta].rawPath \notin DOMAIN rawFiles
     THEN /\ Answer(r, 404)
          /\ UNCHANGED nextUuid
     ELSE /\ nextUuid <= MaxUuid
          /\ req' = [req EXCEPT ![r].pc = "processing", ![r].out = nextUuid]
          /\ nextUuid' = nextUuid + 1
          /\ UNCHANGED last
  /\ UNCHANGED <<now, rawFiles, procFiles, snapshot, heap, cache, init, server,
                 sweep, boot, call, deleted, rejected>>

(* sharp has opened and decoded the input file (or failed to).             *)
ProcessRead(r) ==
  /\ req[r].pc = "processing"
  /\ IF heap[req[r].meta].rawPath \notin DOMAIN rawFiles
     THEN Answer(r, 500)
     ELSE /\ req' = [req EXCEPT ![r].pc = "encoding"]
          /\ UNCHANGED last
  /\ UNCHANGED <<now, nextUuid, rawFiles, procFiles, snapshot, heap, cache,
                 init, server, sweep, boot, call, deleted, rejected>>

(* A faulty variant of ProcessWrite: the operations of a record that has   *)
(* some are kept, so the list of an earlier call stays beside the output   *)
(* of a later one.                                                         *)
ProcessWriteKeepsOperations(r) ==
  /\ req[r].pc = "encoding"
  /\ procFiles' = WriteTo(procFiles, req[r].out, OutSize, req[r].id)
  /\ LET ref == req[r].meta
         heap2 == [heap EXCEPT ![ref].processedPath = req[r].out,
                               ![ref].operations =
                                 IF @ = NoOps THEN req[r].ops ELSE @]
         cache2 == (req[r].id :> ref) @@ cache
     IN /\ heap' = heap2
        /\ cache' = cache2
        /\ req' = [req EXCEPT ![r].pc = "saving",
             ![r].content = CacheValues(heap2, cache2)]
  /\ UNCHANGED <<now, nextUuid, rawFiles, snapshot, init, server, sweep, last,
                 boot, call, deleted, rejected>>

(* A faulty variant of ProcessWrite: the update stamps the record anew.    *)
ProcessWriteRestamps(r) ==
  /\ req[r].pc = "encoding"
  /\ procFiles' = WriteTo(procFiles, req[r].out, OutSize, req[r].id)
  /\ LET ref == req[r].meta
         heap2 == [heap EXCEPT ![ref].processedPath = req[r].out,
                               ![ref].operations = req[r].ops,
                               ![ref].timestamp = now + 1]
         cache2 == (req[r].id :> ref) @@ cache
     IN /\ heap' = heap2
        /\ cache' = cache2
        /\ req' = [req EXCEPT ![r].pc = "saving",
             ![r].content = CacheValues(heap2, cache2)]
  /\ UNCHANGED <<now, nextUuid, rawFiles, snapshot, init, server, sweep, last,
                 boot, call, deleted, rejected>>

(* pipeline.toFile(outputPath) has resolved; the handler updates meta and  *)
(* metadata.set runs up to the await of its save().                        *)
ProcessWrite(r) ==
  /\ req[r].pc = "encoding"
  /\ procFiles' = WriteTo(procFiles, req[r].out, OutSize, req[r].id)
  /\ LET ref == req[r].meta
         heap2 == [heap EXCEPT ![ref].processedPath = req[r].out,
                               ![ref].operations = req[r].ops]
         cache2 == (req[r].id :> ref) @@ cache
     IN /\ heap' = heap2
        /\ cache' = cache2
        /\ req' = [req EXCEPT ![r].pc = "saving",
             ![r].content = CacheValues(heap2, cache2)]
  /\ UNCHANGED <<now, nextUuid, rawFiles, snapshot, init, server, sweep, last,
                 boot, call, deleted, rejected>>

(* The save() of metadata.set has resolved; 200.                           *)
ProcessSaved(r) ==
  /\ req[r].pc = "saving"
  /\ req[r].kind = "process"
  /\ snapshot' \in WriteFileOutcomes(req[r].content)
  /\ Answer(r, 200)
  /\ UNCHANGED <<now, nextUuid, rawFiles, procFiles, heap, cache, init, server,
                 sweep, boot, call, deleted, rejected>>

(* ---- DELETE /images/:fileId ---- *)
(* A faulty variant of DeleteStart: the files are unlinked by name before   *)
(* the record is looked up.                                                *)
DeleteStartUnlinksFirst(r) ==
  /\ Free(r)
  /\ \E id \in FileIds :
       IF id \notin DOMAIN cache
       THEN /\ rawFiles' = Unlink(rawFiles, id)
            /\ last' = [kind |-> "delete", status |-> 404]
            /\ UNCHANGED req
       ELSE /\ req' = [req EXCEPT ![r] =
                 [ReqIdle EXCEPT !.pc = "unlinkRaw", !.kind = "delete",
                                 !.id = id, !.meta = cache[id]]]
            /\ UNCHANGED <<last, rawFiles>>
  /\ UNCHANGED <<now, nextUuid, procFiles, snapshot, heap, cache,
                 init, server, sweep, boot, call, deleted, rejected>>

(* metadata.get(fileId); on a hit the handler awaits deleteFile(rawPath).  *)
DeleteStart(r) ==
  /\ Free(r)
  /\ \E id \in FileIds :
       IF id \notin DOMAIN cache
       THEN /\ last' = [kind |-> "delete", status |-> 404]
            /\ UNCHANGED req
       ELSE /\ req' = [req EXCEPT ![r] =
                 [ReqIdle EXCEPT !.pc = "unlinkRaw", !.kind = "delete",
                                 !.id = id, !.meta = cache[id]]]
            /\ UNCHANGED last
  /\ UNCHANGED <<now, nextUuid, rawFiles, procFiles, snapshot, heap, cache,
                 init, server, sweep, boot, call, deleted, rejected>>

(* metadata.delete(fileId) up to the await of its save().                  *)
MetadataDelete(r) ==
  LET cache2 == [id \in (DOMAIN cache) \ {req[r].id} |-> cache[id]]
  IN /\ cache' = cache2
     /\ req' = [req EXCEPT ![r].pc = "saving",
          ![r].content = CacheValues(heap, cache2)]

(* deleteFile(meta.rawPath) has resolved; meta.processedPath is read now.  *)
DeleteRaw(r) ==
  /\ req[r].pc = "unlinkRaw"
  /\ rawFiles' = Unlink(rawFiles, heap[req[r].meta].rawPath)
  /\ IF heap[req[r].meta].processedPath # NoFile
     THEN /\ req' = [req EXCEPT ![r].pc = "unlinkProcessed",
               ![r].out = heap[req[r].meta].processedPath]
          /\ UNCHANGED cache
     ELSE MetadataDelete(r)
  /\ UNCHANGED <<now, nextUuid, procFiles, snapshot, heap, init, server, sweep, last,
                 boot, call, deleted, rejected>>

(* deleteFile(meta.processedPath) has resolved.                            *)
DeleteProcessed(r) ==
  /\ req[r].pc = "unlinkProcessed"
  /\ procFiles' = Unlink(procFiles, req[r].out)
  /\ MetadataDelete(r)
  /\ UNCHANGED <<now, nextUuid, rawFiles, snapshot, heap, init, server, sweep, last,
                 boot, call, deleted, rejected>>

(* The save() of metadata.delete has resolved; 204.                        *)
DeleteSaved(r) ==
  /\ req[r].pc = "saving"
  /\ req[r].kind = "delete"
  /\ snapshot' \in WriteFileOutcomes(req[r].content)
  /\ deleted' = deleted \cup {req[r].id}
  /\ Answer(r, 204)
  /\ UNCHANGED <<now, nextUuid, rawFiles, procFiles, heap, cache, init, server,
                 sweep, boot, call, rejected>>

(* ---- the cleanup job: StorageService.cleanupOldFiles ---- *)
(* The timer fires; cleanupDirectory(rawDir) has listed the directory.     *)
SweepStart ==
  /\ server = "listening"
  /\ sweep.pc = "idle"
  /\ sweep' = [pc |-> "raw", now |-> now, todo |-> DOMAIN rawFiles,
               expired |-> {id \in DOMAIN cache :
                              now - heap[cache[id]].timestamp > Ttl}]
  /\ UNCHANGED <<now, nextUuid, rawFiles, procFiles, snapshot, heap, cache,
                 init, server, req, last, boot, call, deleted, rejected>>

(* One file of the listing: fs.stat, and deleteFile when it is too old.    *)
(* A stat that fails throws out of the loop over the directory.            *)
CleanupFile(dir, f) ==
  IF f \in DOMAIN dir /\ sweep.now - dir[f].mtime > Ttl
  THEN Unlink(dir, f) ELSE dir

SweepRaw ==
  /\ sweep.pc = "raw"
  /\ IF sweep.todo = {}
     THEN /\ sweep' = [sweep EXCEPT !.pc = "processed",
                                    !.todo = DOMAIN procFiles]
          /\ UNCHANGED rawFiles
     ELSE \E f \in sweep.todo :
            /\ rawFiles' = CleanupFile(rawFiles, f)
            /\ sweep' = IF f \in DOMAIN rawFiles
                        THEN [sweep EXCEPT !.todo = @ \ {f}]
                        ELSE [sweep EXCEPT !.pc = "processed",
                                           !.todo = DOMAIN procFiles]
  /\ UNCHANGED <<now, nextUuid, procFiles, snapshot, heap, cache, init, server, req,
                 last, boot, call, deleted, rejected>>

SweepProcessed ==
  /\ sweep.pc = "processed"
  /\ IF sweep.todo = {}
     THEN /\ sweep' = SweepIdle
          /\ UNCHANGED procFiles
     ELSE \E f \in sweep.todo :
            /\ procFiles' = CleanupFile(procFiles, f)
            /\ sweep' = IF f \in DOMAIN procFiles
                        THEN [sweep EXCEPT !.todo = @ \ {f}]
                        ELSE SweepIdle
  /\ UNCHANGED <<now, nextUuid, rawFiles, snapshot, heap, cache, init, server, req,
                 last, boot, call, deleted, rejected>>

(* ---- failures of the image library and of the file system ---- *)
(* sharp cannot decode the input (corrupt data): processImage throws       *)
(* "Image processing failed: ..." before an output exists; 500.            *)
ProcessDecodeFails(r) ==
  /\ req[r].pc = "processing"
  /\ Answer(r, 500)
  /\ UNCHANGED <<now, nextUuid, rawFiles, procFiles, snapshot, heap, cache,
                 init, server, sweep, boot, call, deleted, rejected>>

(* pipeline.toFile(outputPath) rejects while transforming or encoding (a   *)
(* bad extract area, data that fails to decode part-way, a full disk).     *)
(* The output file was not created yet, or it was and holds what had been  *)
(* written; processImage throws and nothing removes the file; 500.         *)
ProcessEncodeFails(r) ==
  /\ req[r].pc = "encoding"
  /\ procFiles' \in {procFiles, WriteTo(procFiles, req[r].out, 1, req[r].id)}
  /\ Answer(r, 500)
  /\ UNCHANGED <<now, nextUuid, rawFiles, snapshot, heap, cache, init, server,
                 sweep, boot, call, deleted, rejected>>

(* What a writeFile of metadata.json that rejects leaves: the file as it   *)
(* was (the open failed) or truncated (the write failed part-way).         *)
WriteFileFailures == {snapshot, [state |-> "corrupt", records |-> {}]}

(* The save() of metadata.set rejects in an upload: the error reaches the  *)
(* handler's catch; 500.                                                   *)
UploadSaveFails(r) ==
  /\ req[r].pc = "saving"
  /\ req[r].kind = "upload"
  /\ snapshot' \in WriteFileFailures
  /\ Answer(r, 500)
  /\ UNCHANGED <<now, nextUuid, rawFiles, procFiles, heap, cache, init, server,
                 sweep, boot, call, deleted, rejected>>

(* The save() of metadata.set rejects in a process call; 500.              *)
ProcessSaveFails(r) ==
  /\ req[r].pc = "saving"
  /\ req[r].kind = "process"
  /\ snapshot' \in WriteFileFailures
  /\ Answer(r, 500)
  /\ UNCHANGED <<now, nextUuid, rawFiles, procFiles, heap, cache, init, server,
                 sweep, boot, call, deleted, rejected>>

(* A faulty variant of DeleteRawFails: the failed unlink ends the call with *)
(* an error and the record stays.                                          *)
DeleteRawFailsEscalates(r) ==
  /\ req[r].pc = "unlinkRaw"
  /\ Answer(r, 500)
  /\ UNCHANGED <<now, nextUuid, rawFiles, procFiles, snapshot, heap, cache,
                 init, server, sweep, boot, call, deleted, rejected>>

(* fs.unlink(meta.rawPath) rejects (no permission, a busy file): deleteFile *)
(* logs the error and resolves; the file stays and the handler goes on.    *)
DeleteRawFails(r) ==
  /\ req[r].pc = "unlinkRaw"
  /\ IF heap[req[r].meta].processedPath # NoFile
     THEN /\ req' = [req EXCEPT ![r].pc = "unlinkProcessed",
               ![r].out = heap[req[r].meta].processedPath]
          /\ UNCHANGED cache
     ELSE MetadataDelete(r)
  /\ UNCHANGED <<now, nextUuid, rawFiles, procFiles, snapshot, heap, init,
                 server, sweep, last, boot, call, deleted, rejected>>

(* fs.unlink(meta.processedPath) rejects: logged, the file stays.          *)
DeleteProcessedFails(r) ==
  /\ req[r].pc = "unlinkProcessed"
  /\ MetadataDelete(r)
  /\ UNCHANGED <<now, nextUuid, rawFiles, procFiles, snapshot, heap, init,
                 server, sweep, last, boot, call, deleted, rejected>>

(* The totals calculateDirectorySize(uploadDir) returns when a call of the *)
(* scan rejects.  Each level catches the error, logs it and returns what   *)
(* it has added so far: a readdir that rejects leaves its directory out, a *)
(* stat that rejects ends the loop over its directory, so the files listed *)
(* before it are counted and the rest are not (the listing order is the    *)
(* file system's).  Something that was to be counted is left out.          *)
PartialSizes ==
  { DirBytes([n \in R |-> rawFiles[n]]) + DirBytes([n \in P |-> procFiles[n]])
      + (IF counted THEN SnapshotBytes ELSE 0) :
    <<R, P, counted>> \in
      { t \in (SUBSET DOMAIN rawFiles) \X (SUBSET DOMAIN procFiles) \X BOOLEAN :
          \/ t[1] # DOMAIN rawFiles
          \/ t[2] # DOMAIN procFiles
          \/ (~t[3] /\ snapshot.state # "absent") } }

(* checkDiskQuota() has resolved after a scan in which readdir or stat     *)
(* rejected: calculateDirectorySize has returned a partial total, nothing  *)
(* reaches the catch of checkDiskQuota, and the total is compared.         *)
UploadQuotaScanFails(r) ==
  /\ req[r].pc = "quota"
  /\ \E totalSize \in PartialSizes :
       req' = [req EXCEPT ![r].pc =
         IF totalSize < Quota THEN "validate" ELSE "quotaUnlink"]
  /\ UNCHANGED <<now, nextUuid, rawFiles, procFiles, snapshot, heap, cache,
                 init, server, sweep, last, boot, call, deleted, rejected>>

(* ---- GET /images/raw/:filename, GET /images/processed/:filename ---- *)
(* The answer of a fetch of `name` from directory dir: fs.access, then the *)
(* file's bytes (its size and the upload they come from), or 404.          *)
FetchFile(dir, name) ==
  IF name \in DOMAIN dir
  THEN [status |-> 200, size |-> dir[name].size, src |-> dir[name].src]
  ELSE [status |-> 404, size |-> 0, src |-> NoFile]

FetchRaw(name) == FetchFile(rawFiles, name)

FetchProcessed(name) == FetchFile(procFiles, name)

(* ---- operations (types of part_008) ---- *)
NoNumber == 0 - 2           \* a numeric property that is undefined

GetNum(params, key) == IF key \in DOMAIN params THEN params[key] ELSE NoNumber

GetStr(params, key) == IF key \in DOMAIN params THEN params[key] ELSE Undefined

(* The entries an operation list is drawn from.  Crop coordinates are in   *)
(* halves of a pixel (3 is 1.5).  The last three are not of the declared   *)
(* types: an unknown type, a format outside ConvertParams, no format.      *)
Operations ==
  { [type |-> "resize",  params |-> [width |-> 100, height |-> 100]],
    [type |-> "resize",  params |-> [width |-> 50, fit |-> "contain"]],
    [type |-> "crop",    params |-> [x |-> 3, y |-> 0, width |-> 20, height |-> 21]],
    [type |-> "convert", params |-> [format |-> "jpeg"]],
    [type |-> "convert", params |-> [format |-> "png"]],
    [type |-> "convert", params |-> [format |-> "webp"]],
    [type |-> "quality", params |-> [quality |-> 50]],
    [type |-> "quality", params |-> [quality |-> 90]],
    [type |-> "blur",    params |-> [sigma |-> 2]],
    [type |-> "convert", params |-> [format |-> "gif"]],
    [type |-> "convert", params |-> [quality |-> 50]],
    [type |-> "convert", params |-> [format |-> "constructor"]] }

OperationLists == UNION {[1..n -> Operations] : n \in 0..MaxOps}

(* ---- ImageProcessor (part_004) ---- *)
(* The sharp pipeline is the sequence of calls made on it: [fn, args, opt]. *)
SharpCall(fn, args, opt) == [fn |-> fn, args |-> args, opt |-> opt]

(* Math.round of a value given in halves.                                  *)
Round(halves) == (halves + 1) \div 2

ApplyResize(pipeline, params) ==
  Append(pipeline,
         SharpCall("resize",
                   <<GetNum(params, "width"), GetNum(params, "height")>>,
                   IF "fit" \in DOMAIN params THEN params.fit ELSE "cover"))

ApplyCrop(pipeline, params) ==
  Append(pipeline,
         SharpCall("extract",
                   <<Round(params.x), Round(params.y),
                     Round(params.width), Round(params.height)>>, ""))

(* A faulty variant of ApplyOperation: an unknown type starts the pipeline  *)
(* afresh, so the entries before it are lost.                              *)
ApplyOperationResets(pipeline, operation) ==
  CASE operation.type = "resize"  -> ApplyResize(pipeline, operation.params)
    [] operation.type = "crop"    -> ApplyCrop(pipeline, operation.params)
    [] operation.type = "convert" -> pipeline
    [] operation.type = "quality" -> pipeline
    [] OTHER                      -> SubSeq(pipeline, 1, 1)

ApplyOperation(pipeline, operation) ==
  CASE operation.type = "resize"  -> ApplyResize(pipeline, operation.params)
    [] operation.type = "crop"    -> ApplyCrop(pipeline, operation.params)
    [] operation.type = "convert" -> pipeline
    [] operation.type = "quality" -> pipeline
    [] OTHER                      -> pipeline

(* The loop "apply operations in order".                                   *)
RECURSIVE ApplyOperations(_, _)
ApplyOperations(pipeline, operations) ==
  IF operations = <<>> THEN pipeline
  ELSE ApplyOperations(ApplyOperation(pipeline, Head(operations)),
                       Tail(operations))

(* The loop "extract format and quality from operations", from the         *)
(* settings so far.                                                        *)
RECURSIVE ExtractSettings(_, _)
ExtractSettings(settings, operations) ==
  IF operations = <<>> THEN settings
  ELSE LET operation == Head(operations)
           s1 == IF operation.type = "convert"
                 THEN [settings EXCEPT
                         !.outputFormat = GetStr(operation.params, "format")]
                 ELSE settings
           s2 == IF operation.type = "quality"
                 THEN [s1 EXCEPT !.quality = GetNum(operation.params, "quality")]
                 ELSE s1
       IN ExtractSettings(s2, Tail(operations))

DefaultSettings == [outputFormat |-> "jpeg", quality |-> 80]

(* A faulty variant of OutputSettings: the first Convert and the first     *)
(* Quality entry win.                                                      *)
OutputSettingsFirstWins(operations) ==
  LET Rev(seq) == [i \in 1..Len(seq) |-> seq[Len(seq) + 1 - i]]
  IN ExtractSettings(DefaultSettings, Rev(operations))

OutputSettings(operations) == ExtractSettings(DefaultSettings, operations)

(* The switch "apply output format with quality".                          *)
Encode(pipeline, settings) ==
  CASE settings.outputFormat = "jpeg" ->
         Append(pipeline, SharpCall("jpeg", <<settings.quality>>, "mozjpeg"))
    [] settings.outputFormat = "png" ->
         Append(pipeline, SharpCall("png", <<settings.quality, 9>>, ""))
    [] settings.outputFormat = "webp" ->
         Append(pipeline, SharpCall("webp", <<settings.quality>>, ""))
    [] OTHER ->
         Append(pipeline, SharpCall("jpeg", <<settings.quality>>, "mozjpeg"))

(* processImage up to pipeline.toFile: the calls made on the pipeline.     *)
ProcessImage(operations) ==
  Encode(ApplyOperations(<<SharpCall("rotate", <<>>, "")>>, operations),
         OutputSettings(operations))

(* ---- what sharp does with the calls (the sharp library) ---- *)
(* A sharp pipeline is one options object: resize() overwrites the resize  *)
(* options ("only one resize can occur per pipeline"), extract() fills the *)
(* pre-resize region when no resize and no pre-resize region is set yet    *)
(* and the post-resize region otherwise, overwriting it.  toFile then runs *)
(* pre-resize extract, resize, post-resize extract, in that fixed order.   *)
NoSharpCall == SharpCall("none", <<>>, "")

RECURSIVE SharpOptions(_, _)
SharpOptions(options, calls) ==
  IF calls = <<>> THEN options
  ELSE LET c == Head(calls)
           o == CASE c.fn = "resize" -> [options EXCEPT !.resize = c]
                  [] c.fn = "extract" ->
                       IF options.resize # NoSharpCall \/ options.pre # NoSharpCall
                       THEN [options EXCEPT !.post = c]
                       ELSE [options EXCEPT !.pre = c]
                  [] OTHER -> options
       IN SharpOptions(o, Tail(calls))

(* The geometric operations toFile performs for the calls made.            *)
SharpRuns(calls) ==
  LET o == SharpOptions([pre |-> NoSharpCall, resize |-> NoSharpCall,
                         post |-> NoSharpCall], calls)
      Set(c) == c # NoSharpCall
  IN SelectSeq(<<o.pre, o.resize, o.post>>, Set)

(* ---- the name of the output: the route and getExtensionFromFormat ---- *)
(* "Determine output format": the format of the last convert entry that    *)
(* has one, jpeg without any.                                              *)
RECURSIVE RouteOutputFormat(_, _)
RouteOutputFormat(outputFormat, operations) ==
  IF operations = <<>> THEN outputFormat
  ELSE LET op == Head(operations)
       IN RouteOutputFormat(
            IF op.type = "convert" /\ "format" \in DOMAIN op.params
            THEN op.params.format ELSE outputFormat,
            Tail(operations))

(* formatMap, an object literal.                                           *)
FormatMap ==
  ("jpeg" :> "jpg") @@ ("png" :> "png") @@ ("webp" :> "webp") @@ ("gif" :> "gif")

(* What an object literal inherits from Object.prototype (some of it), by  *)
(* property name; a value is written as the text it gives in a template    *)
(* string.                                                                 *)
ObjectPrototype ==
  ("constructor" :> "function Object() { [native code] }")
    @@ ("toString" :> "function toString() { [native code] }")
    @@ ("valueOf" :> "function valueOf() { [native code] }")
    @@ ("__proto__" :> "[object Object]")

(* object[key]: the own property, else the inherited one, else undefined.  *)
GetProperty(object, key) ==
  IF key \in DOMAIN object THEN object[key]
  ELSE IF key \in DOMAIN ObjectPrototype THEN ObjectPrototype[key]
  ELSE Undefined

(* formatMap[format] || 'jpg'                                              *)
GetExtensionFromFormat(format) ==
  LET found == GetProperty(FormatMap, format)
  IN IF found \in {Undefined, ""} THEN "jpg" ELSE found

(* ---- POST /process: the body ---- *)
(* A body is [fileId, operations]; operations is [kind, val], of kind      *)
(* "list" (an array, val), "undefined" (absent) or "object" (a value that  *)
(* is truthy and no array).                                                *)
Bodies ==
  [fileId : {Undefined, "", "a"},
   operations : {[kind |-> "undefined", val |-> <<>>],
                 [kind |-> "object", val |-> <<>>]}
                \cup {[kind |-> "list", val |-> l] : l \in OperationLists}]

(* The body check of the route, then the output format and extension the   *)
(* route determines, and processImage on the operations.                   *)
ProcessBody ==
  /\ call.fn = "process"
  /\ call.pc = "called"
  /\ call' = IF InvalidBody(call.arg)
             THEN [call EXCEPT !.pc = "returned", !.out = [status |-> 400]]
             ELSE [call EXCEPT !.pc = "pipeline"]
  /\ UNCHANGED <<now, nextUuid, rawFiles, procFiles, snapshot, heap, cache,
                 init, server, sweep, req, last, boot, deleted, rejected>>

ProcessPipeline ==
  /\ call.fn = "process"
  /\ call.pc = "pipeline"
  /\ call' = [call EXCEPT !.pc = "returned",
                !.out = [status |-> 200,
                         format |-> RouteOutputFormat("jpeg", call.arg.operations.val),
                         ext |-> GetExtensionFromFormat(
                                   RouteOutputFormat("jpeg", call.arg.operations.val)),
                         calls |-> ProcessImage(call.arg.operations.val)]]
  /\ UNCHANGED <<now, nextUuid, rawFiles, procFiles, snapshot, heap, cache,
                 init, server, sweep, req, last, boot, deleted, rejected>>

ValidateCall ==
  /\ call.fn = "validateFileSignature"
  /\ call.pc = "called"
  /\ call' = [call EXCEPT !.pc = "returned",
                          !.out = ValidateFileSignature(call.arg)]
  /\ UNCHANGED <<now, nextUuid, rawFiles, procFiles, snapshot, heap, cache,
                 init, server, sweep, req, last, boot, deleted, rejected>>

(* ---- the name of a stored upload: multer's diskStorage.filename ---- *)
(* A name is a sequence of characters.  The class [a-zA-Z0-9._-] of        *)
(* sanitizeFilename:                                                       *)
SafeChars ==
  {"a", "b", "c", "d", "e", "f", "g", "h", "i", "j", "k", "l", "m", "n", "o",
   "p", "q", "r", "s", "t", "u", "v", "w", "x", "y", "z",
   "A", "B", "C", "D", "E", "F", "G", "H", "I", "J", "K", "L", "M", "N", "O",
   "P", "Q", "R", "S", "T", "U", "V", "W", "X", "Y", "Z",
   "0", "1", "2", "3", "4", "5", "6", "7", "8", "9", ".", "_", "-"}

(* A faulty variant of SanitizeFilename: a character outside the class is  *)
(* dropped.                                                                *)
SanitizeFilenameDrops(filename) ==
  SelectSeq(filename, LAMBDA c : c \in SafeChars)

(* filename.replace(/[^a-zA-Z0-9._-]/g, '_')                               *)
SanitizeFilename(filename) ==
  [i \in 1..Len(filename) |->
     IF filename[i] \in SafeChars THEN filename[i] ELSE "_"]

NoIndex == 0 - 1            \* -1, "not found" in path.extname

(* The loop of path.extname (posix) from index i down to 0, indexes as in  *)
(* the JavaScript: st is [startDot, startPart, end, matchedSlash,          *)
(* preDotState].                                                           *)
RECURSIVE ExtScan(_, _, _)
ExtScan(path, i, st) ==
  IF i < 0 THEN st
  ELSE IF path[i + 1] = "/"
  THEN IF ~st.matchedSlash
       THEN [st EXCEPT !.startPart = i + 1]
       ELSE ExtScan(path, i - 1, st)
  ELSE LET st1 == IF st.end = NoIndex
                  THEN [st EXCEPT !.matchedSlash = FALSE, !.end = i + 1]
                  ELSE st
           st2 == IF path[i + 1] = "."
                  THEN IF st1.startDot = NoIndex
                       THEN [st1 EXCEPT !.startDot = i]
                       ELSE IF st1.preDotState # 1
                       THEN [st1 EXCEPT !.preDotState = 1]
                       ELSE st1
                  ELSE IF st1.startDot # NoIndex
                  THEN [st1 EXCEPT !.preDotState = NoIndex]
                  ELSE st1
       IN ExtScan(path, i - 1, st2)

(* path.extname(path): from the last "." of the last segment to its end,   *)
(* empty when there is none or the segment starts with it.                 *)
Extname(path) ==
  LET st == ExtScan(path, Len(path) - 1,
                    [startDot |-> NoIndex, startPart |-> 0, end |-> NoIndex,
                     matchedSlash |-> TRUE, preDotState |-> 0])
  IN IF \/ st.startDot = NoIndex
        \/ st.end = NoIndex
        \/ st.preDotState = 0
        \/ /\ st.preDotState = 1
           /\ st.startDot = st.end - 1
           /\ st.startDot = st.startPart + 1
     THEN <<>>
     ELSE SubSeq(path, st.startDot + 1, st.end)

(* The characters of the names clients give, and the names.                *)
NameChars == {"a", ".", "-", " ", "$"}

OriginalNames == UNION {[1..n -> NameChars] : n \in 0..MaxName}

(* `${uuidv4()}${ext}`: the stored name is the uuid followed by ext.        *)
StoredName(uuid, originalname) == [uuid |-> uuid, ext |-> Extname(originalname)]

(* multer calls filename(req, file, cb) for an upload named call.arg.      *)
StoreFilename ==
  /\ call.fn = "filename"
  /\ call.pc = "called"
  /\ nextUuid <= MaxUuid
  /\ call' = [call EXCEPT !.pc = "returned",
                          !.out = StoredName(nextUuid, call.arg)]
  /\ nextUuid' = nextUuid + 1
  /\ UNCHANGED <<now, rawFiles, procFiles, snapshot, heap, cache, init, server,
                 sweep, req, last, boot, deleted, rejected>>

(* sanitizeFilename(call.arg) is called; `once` is its result.             *)
SanitizeCall ==
  /\ call.fn = "sanitizeFilename"
  /\ call.pc = "called"
  /\ call' = [call EXCEPT !.pc = "returned",
                          !.out = [once |-> SanitizeFilename(call.arg),
                                   twice |-> <<>>]]
  /\ UNCHANGED <<now, nextUuid, rawFiles, procFiles, snapshot, heap, cache,
                 init, server, sweep, req, last, boot, deleted, rejected>>

(* sanitizeFilename is called on its own result.                           *)
SanitizeAgain ==
  /\ call.fn = "sanitizeFilename"
  /\ call.pc = "returned"
  /\ call' = [call EXCEPT !.pc = "returned twice",
                          !.out.twice = SanitizeFilename(call.out.once)]
  /\ UNCHANGED <<now, nextUuid, rawFiles, procFiles, snapshot, heap, cache,
                 init, server, sweep, req, last, boot, deleted, rejected>>

(* ---- MetadataStore.cleanup ---- *)
NoTime == 0 - 1             \* "never"

(* A faulty variant of TooOld: a record whose age equals the ttl goes too. *)
TooOldAtTtl(record, at, ttl) == at - record.timestamp >= ttl

(* now - metadata.timestamp > ttlMs                                        *)
TooOld(record, at, ttl) == at - record.timestamp > ttl

(* The loop over cache.entries(), in the order of the ids: st is           *)
(* [cache, deleted], ids the entries still to visit.                       *)
RECURSIVE CleanupEntries(_, _, _, _)
CleanupEntries(st, ids, at, ttl) ==
  IF ids = {} THEN st
  ELSE LET id == CHOOSE i \in ids : \A j \in ids : i <= j
           st2 == IF TooOld(heap[st.cache[id]], at, ttl)
                  THEN [cache |-> [k \in (DOMAIN st.cache) \ {id} |-> st.cache[k]],
                        deleted |-> st.deleted + 1]
                  ELSE st
       IN CleanupEntries(st2, ids \ {id}, at, ttl)

(* cleanup(ttlMs) is called; prevAt and prevDeleted are history: the time  *)
(* and the result of the call before.                                      *)
CleanupCall ==
  /\ call.fn = "cleanup"
  /\ call.pc \in {"ready", "returned"}
  /\ call' = [call EXCEPT !.pc = "called", !.out.prevAt = call.out.at,
                          !.out.prevDeleted = call.out.deleted]
  /\ UNCHANGED <<now, nextUuid, rawFiles, procFiles, snapshot, heap, cache,
                 init, server, sweep, req, last, boot, deleted, rejected>>

(* A faulty variant of CleanupRun: save() is awaited whatever was deleted. *)
CleanupRunAlwaysSaves ==
  /\ call.fn = "cleanup"
  /\ call.pc = "called"
  /\ LET st == CleanupEntries([cache |-> cache, deleted |-> 0], DOMAIN cache,
                              now, call.arg)
     IN /\ cache' = st.cache
        /\ call' = [call EXCEPT
             !.pc = "saving",
             !.out = [at |-> now, deleted |-> st.deleted, writes |-> 0,
                      content |-> CacheValues(heap, st.cache),
                      prevAt |-> call.out.prevAt,
                      prevDeleted |-> call.out.prevDeleted]]
  /\ UNCHANGED <<now, nextUuid, rawFiles, procFiles, snapshot, heap, init,
                 server, sweep, req, last, boot, deleted, rejected>>

(* Date.now(), the loop, and save() up to its writeFile when deleted > 0;  *)
(* otherwise the call returns 0.  `writes` is history: the writes of       *)
(* metadata.json the call has made.                                        *)
CleanupRun ==
  /\ call.fn = "cleanup"
  /\ call.pc = "called"
  /\ LET st == CleanupEntries([cache |-> cache, deleted |-> 0], DOMAIN cache,
                              now, call.arg)
     IN /\ cache' = st.cache
        /\ call' = [call EXCEPT
             !.pc = IF st.deleted > 0 THEN "saving" ELSE "returned",
             !.out = [at |-> now, deleted |-> st.deleted, writes |-> 0,
                      content |-> CacheValues(heap, st.cache),
                      prevAt |-> call.out.prevAt,
                      prevDeleted |-> call.out.prevDeleted]]
  /\ UNCHANGED <<now, nextUuid, rawFiles, procFiles, snapshot, heap, init,
                 server, sweep, req, last, boot, deleted, rejected>>

(* The writeFile of save() has resolved; cleanup returns `deleted`.        *)
CleanupSaved ==
  /\ call.fn = "cleanup"
  /\ call.pc = "saving"
  /\ snapshot' \in WriteFileOutcomes(call.out.content)
  /\ call' = [call EXCEPT !.pc = "returned", !.out.writes = @ + 1]
  /\ UNCHANGED <<now, nextUuid, rawFiles, procFiles, heap, cache, init, server,
                 sweep, req, last, boot, deleted, rejected>>

(* ---- the clock ---- *)
(* Time passes between any two steps: Date.now() and the mtime of a file   *)
(* written later are larger.                                               *)
Tick ==
  /\ now < MaxTime
  /\ now' = now + 1
  /\ UNCHANGED <<nextUuid, rawFiles, procFiles, snapshot, heap, cache, init,
                 server, sweep, req, last, boot, call, deleted, rejected>>

(* What the running server does: requests and the cleanup job.            *)
Serve ==
  \/ \E r \in Req : UploadStart(r)
  \/ \E r \in Req : UploadNoFile(r)
  \/ \E r \in Req : UploadQuota(r)
  \/ \E r \in Req : UploadQuotaUnlink(r)
  \/ \E r \in Req : UploadValidate(r)
  \/ \E r \in Req : UploadInvalidUnlink(r)
  \/ \E r \in Req : UploadSaved(r)
  \/ \E r \in Req : ProcessStart(r)
  \/ \E r \in Req : ProcessAccess(r)
  \/ \E r \in Req : ProcessRead(r)
  \/ \E r \in Req : ProcessWrite(r)
  \/ \E r \in Req : ProcessSaved(r)
  \/ \E r \in Req : DeleteStart(r)
  \/ \E r \in Req : DeleteRaw(r)
  \/ \E r \in Req : DeleteProcessed(r)
  \/ \E r \in Req : DeleteSaved(r)
  \/ SweepStart
  \/ SweepRaw
  \/ SweepProcessed

Next ==
  \/ StartServer
  \/ InitRead
  \/ InitSaved
  \/ Serve

(* The process from its start: requests race with the load of the Catalog. *)
Spec == Init /\ [][Next]_vars

(* The states in which startup has completed before the first request:     *)
(* initialize() has loaded metadata.json (or created it, or given up on an *)
(* unreadable one) and the server listens.                                 *)
InitServing ==
  /\ now = Ttl + 1
  /\ nextUuid = 1
  /\ \/ /\ boot = "absent"
        /\ snapshot = Valid({})
        /\ rawFiles = EmptyDir
        /\ heap = [x \in {} |-> OldRecord]
        /\ cache = [x \in {} |-> NoRef]
     \/ /\ boot = "valid"
        /\ snapshot = Valid({OldRecord})
        /\ rawFiles = (0 :> [size |-> 1, mtime |-> 0, src |-> 0])
        /\ heap = (<<"load", 0>> :> OldRecord)
        /\ cache = (0 :> <<"load", 0>>)
     \/ /\ boot = "corrupt"
        /\ snapshot = [state |-> "corrupt", records |-> {}]
        /\ rawFiles = (0 :> [size |-> 1, mtime |-> 0, src |-> 0])
        /\ heap = [x \in {} |-> OldRecord]
        /\ cache = [x \in {} |-> NoRef]
  /\ procFiles = EmptyDir
  /\ init = [pc |-> "done", content |-> {}]
  /\ server = "listening"
  /\ sweep = SweepIdle
  /\ req = [r \in Req |-> ReqIdle]
  /\ last = [kind |-> "none", status |-> 0]
  /\ deleted = {}
  /\ rejected = {}
  /\ call = NoCall

(* The server once startup has completed.                                  *)
SpecServing == InitServing /\ [][Serve]_vars

(* The server at time 0, after a startup that loaded the record of one      *)
(* earlier upload.                                                         *)
InitClock ==
  /\ now = 0
  /\ nextUuid = 1
  /\ boot = "valid"
  /\ snapshot = Valid({OldRecord})
  /\ rawFiles = (0 :> [size |-> 1, mtime |-> 0, src |-> 0])
  /\ procFiles = EmptyDir
  /\ heap = (<<"load", 0>> :> OldRecord)
  /\ cache = (0 :> <<"load", 0>>)
  /\ init = [pc |-> "done", content |-> {}]
  /\ server = "listening"
  /\ sweep = SweepIdle
  /\ req = [r \in Req |-> ReqIdle]
  /\ last = [kind |-> "none", status |-> 0]
  /\ deleted = {}
  /\ rejected = {}
  /\ call = NoCall

(* Serve with one request at a time: a request starts in slot 1 only, so   *)
(* none starts while another is in flight (the cleanup job still runs      *)
(* beside the request).                                                    *)
ServeInTurn ==
  \/ UploadStart(1)
  \/ UploadNoFile(1)
  \/ UploadQuota(1)
  \/ UploadQuotaUnlink(1)
  \/ UploadValidate(1)
  \/ UploadInvalidUnlink(1)
  \/ UploadSaved(1)
  \/ ProcessStart(1)
  \/ ProcessAccess(1)
  \/ ProcessRead(1)
  \/ ProcessWrite(1)
  \/ ProcessSaved(1)
  \/ DeleteStart(1)
  \/ DeleteRaw(1)
  \/ DeleteProcessed(1)
  \/ DeleteSaved(1)
  \/ SweepStart
  \/ SweepRaw
  \/ SweepProcessed

(* The serving server with time passing and requests arriving in turn.     *)
SpecClock == InitClock /\ [][ServeInTurn \/ Tick]_vars

(* The variables of the server while a function is called on its own.     *)
ServerAtRest ==
  /\ now = 0
  /\ nextUuid = 1
  /\ boot = "absent"
  /\ snapshot = [state |-> "absent", records |-> {}]
  /\ rawFiles = EmptyDir
  /\ procFiles = EmptyDir
  /\ heap = [x \in {} |-> OldRecord]
  /\ cache = [x \in {} |-> NoRef]
  /\ init = [pc |-> "reading", content |-> {}]
  /\ server = "starting"
  /\ sweep = SweepIdle
  /\ req = [r \in Req |-> ReqIdle]
  /\ last = [kind |-> "none", status |-> 0]
  /\ deleted = {}
  /\ rejected = {}

(* The body check and the pipeline of a process request, on every body.    *)
InitPipeline ==
  /\ ServerAtRest
  /\ call \in [fn : {"process"}, arg : Bodies, pc : {"called"}, out : {<<>>}]

SpecPipeline == InitPipeline /\ [][ProcessBody \/ ProcessPipeline]_vars

(* validateFileSignature on every sample buffer.                           *)
InitSignature ==
  /\ ServerAtRest
  /\ call \in [fn : {"validateFileSignature"}, arg : Buffers,
               pc : {"called"}, out : {FALSE}]

SpecSignature == InitSignature /\ [][ValidateCall]_vars

(* The uploads studied one kind of file at a time: every declared type    *)
(* with every sample of bytes.                                             *)
UploadRequests ==
  [originalname : {"photo.jpg"},
   mimetype : AllowedMimeTypes \cup {"text/plain"}, buffer : Samples]

(* The server after a startup that loaded one record; every upload of the  *)
(* run sends the file held in `call`.                                      *)
InitUpload ==
  /\ now = Ttl + 1
  /\ nextUuid = 1
  /\ boot = "valid"
  /\ snapshot = Valid({OldRecord})
  /\ rawFiles = (0 :> [size |-> 1, mtime |-> 0, src |-> 0])
  /\ procFiles = EmptyDir
  /\ heap = (<<"load", 0>> :> OldRecord)
  /\ cache = (0 :> <<"load", 0>>)
  /\ init = [pc |-> "done", content |-> {}]
  /\ server = "listening"
  /\ sweep = SweepIdle
  /\ req = [r \in Req |-> ReqIdle]
  /\ last = [kind |-> "none", status |-> 0]
  /\ deleted = {}
  /\ rejected = {}
  /\ call \in [fn : {"upload"}, arg : UploadRequests, pc : {"none"},
               out : {<<>>}]

(* The upload handler, one request at a time.                              *)
UploadInTurn ==
  \/ UploadStart(1)
  \/ UploadNoFile(1)
  \/ UploadQuota(1)
  \/ UploadQuotaUnlink(1)
  \/ UploadValidate(1)
  \/ UploadInvalidUnlink(1)
  \/ UploadSaved(1)

SpecUpload == InitUpload /\ [][UploadInTurn]_vars

(* The failures a request can meet.                                        *)
Faults ==
  \/ ProcessDecodeFails(1)
  \/ ProcessEncodeFails(1)
  \/ UploadSaveFails(1)
  \/ ProcessSaveFails(1)
  \/ DeleteRawFails(1)
  \/ DeleteProcessedFails(1)
  \/ UploadQuotaScanFails(1)

(* The serving server, requests in turn, with calls that fail.             *)
SpecFaults == InitServing /\ [][ServeInTurn \/ Faults]_vars

(* The records a Catalog may hold at time n: any of the fileIds, each      *)
(* created at a time up to n.                                              *)
Catalogs(n) ==
  UNION {[ids -> 0..n] : ids \in SUBSET FileIds}

RecordAt(id, t) == [OldRecord EXCEPT !.fileId = id, !.rawPath = id, !.timestamp = t]

(* cleanup(ttl) called on a loaded Catalog, again and again, while time    *)
(* passes.                                                                 *)
InitCleanup ==
  /\ now \in 0..MaxTime
  /\ nextUuid = 1
  /\ boot = "valid"
  /\ \E created \in Catalogs(now) :
       /\ heap = [x \in {<<"load", id>> : id \in DOMAIN created} |->
                   RecordAt(x[2], created[x[2]])]
       /\ cache = [id \in DOMAIN created |-> <<"load", id>>]
       /\ rawFiles = [id \in DOMAIN created |->
                       [size |-> 1, mtime |-> created[id], src |-> id]]
  /\ snapshot = Valid(CacheValues(heap, cache))
  /\ procFiles = EmptyDir
  /\ init = [pc |-> "done", content |-> {}]
  /\ server = "starting"
  /\ sweep = SweepIdle
  /\ req = [r \in Req |-> ReqIdle]
  /\ last = [kind |-> "none", status |-> 0]
  /\ deleted = {}
  /\ rejected = {}
  /\ call = [fn |-> "cleanup", arg |-> Ttl, pc |-> "ready",
             out |-> [at |-> NoTime, deleted |-> 0, writes |-> 0, content |-> {},
                      prevAt |-> NoTime, prevDeleted |-> 0]]

SpecCleanup ==
  InitCleanup /\ [][CleanupCall \/ CleanupRun \/ CleanupSaved \/ Tick]_vars

(* The process requests studied one body at a time: every fileId, absent,  *)
(* empty or the name of a file id, with every kind of operations.          *)
ProcessRequests ==
  [fileId : {Undefined, ""} \cup {FileName(id) : id \in FileIds},
   operations : {[kind |-> "undefined", val |-> NoOps],
                 [kind |-> "object", val |-> NoOps]}
                \cup {[kind |-> "list", val |-> o] : o \in 1..Len(OpLists)}]

(* The server after a startup that loaded one record; every process        *)
(* request of the run sends the body held in `call`.                       *)
InitProcess ==
  /\ now = Ttl + 1
  /\ nextUuid = 1
  /\ boot = "valid"
  /\ snapshot = Valid({OldRecord})
  /\ rawFiles = (0 :> [size |-> 1, mtime |-> 0, src |-> 0])
  /\ procFiles = EmptyDir
  /\ heap = (<<"load", 0>> :> OldRecord)
  /\ cache = (0 :> <<"load", 0>>)
  /\ init = [pc |-> "done", content |-> {}]
  /\ server = "listening"
  /\ sweep = SweepIdle
  /\ req = [r \in Req |-> ReqIdle]
  /\ last = [kind |-> "none", status |-> 0]
  /\ deleted = {}
  /\ rejected = {}
  /\ call \in [fn : {"processRequest"}, arg : ProcessRequests, pc : {"none"},
               out : {<<>>}]

SpecProcess == InitProcess /\ [][ServeInTurn]_vars

(* The filename callback on every originalname.                            *)
InitFilename ==
  /\ ServerAtRest
  /\ call \in [fn : {"filename"}, arg : OriginalNames, pc : {"called"},
               out : {<<>>}]

SpecFilename == InitFilename /\ [][StoreFilename]_vars

(* sanitizeFilename on every name, once and twice.                         *)
InitSanitize ==
  /\ ServerAtRest
  /\ call \in [fn : {"sanitizeFilename"}, arg : OriginalNames, pc : {"called"},
               out : {<<>>}]

SpecSanitize == InitSanitize /\ [][SanitizeCall \/ SanitizeAgain]_vars

(***************************************************************************)
(* The claims.                                                             *)
(***************************************************************************)

(* No request, no cleanup run and no load is in flight.                    *)
Quiescent ==
  /\ init.pc = "done"
  /\ sweep.pc = "idle"
  /\ \A r \in Req : req[r].pc = "idle"

(* A DELETE for id has removed the record but not answered yet.            *)
Deleting(id) ==
  \E r \in Req : req[r].kind = "delete" /\ req[r].id = id /\ req[r].pc = "saving"

SnapshotIds(snap) == {rec.fileId : rec \in snap.records}

(* C1: once a delete(id) has answered 204, the id resolves no more: no     *)
(* later lookup finds a record for it, under every interleaving.           *)
C1_DeletedIdNeverResolves == \A id \in deleted : id \notin DOMAIN cache

(* C2: when a run of the cleanup job completes, every record that was      *)
(* older than the TTL when the run started is gone from the Catalog, and   *)
(* its raw file and its processed file are gone from disk.                 *)
C2_SweepRemovesExpiredRecords ==
  [][(sweep.pc # "idle" /\ sweep'.pc = "idle") =>
       \A id \in sweep.expired :
         /\ id \notin DOMAIN cache'
         /\ \A f \in DOMAIN rawFiles' : rawFiles'[f].src # id
         /\ \A f \in DOMAIN procFiles' : procFiles'[f].src # id]_vars

(* C3: in every quiescent state each record of the Catalog names a raw     *)
(* file that exists and, when it has a processedPath, a processed file     *)
(* that exists.                                                            *)
C3_CatalogAndStoreAgree ==
  Quiescent =>
    \A id \in DOMAIN cache :
      /\ heap[cache[id]].rawPath \in DOMAIN rawFiles
      /\ heap[cache[id]].processedPath # NoFile
           => heap[cache[id]].processedPath \in DOMAIN procFiles

AcceptedBytes(raw, proc, rq) ==
  LET pending == {rq[r].file : r \in {q \in Req : /\ rq[q].kind = "upload"
                                                  /\ rq[q].pc \notin {"idle", "saving"}}}
  IN DirBytes([n \in (DOMAIN raw) \ pending |-> raw[n]]) + DirBytes(proc)

(* C5: whenever an upload or a process call is answered with success, the  *)
(* bytes held under the raw and processed roots are below the quota.       *)
C5_QuotaNeverExceeded ==
  [][\A r \in Req :
       (/\ req[r].pc = "saving"
        /\ req[r].kind \in {"upload", "process"}
        /\ req'[r].pc = "idle")
         => AcceptedBytes(rawFiles', procFiles', req') < Quota]_vars

(* C6: in a quiescent state the only processed file derived from a record  *)
(* is the one its processedPath names.                                     *)
C6_OneProcessedFilePerRecord ==
  Quiescent =>
    \A id \in DOMAIN cache : \A f \in DOMAIN procFiles :
      procFiles[f].src = id => f = heap[cache[id]].processedPath

(* C7: at most one write of metadata.json is in progress at any time.      *)
C7_SnapshotWritesExclusive == WritesInFlight <= 1

(* C8: when a put or remove returns, metadata.json holds its effect (the   *)
(* record after a put, no record of the id after a remove), and when no    *)
(* Catalog call is left in flight metadata.json equals the cache.          *)
C8_MutationDurableOnReturn ==
  [][\A r \in Req :
       (req[r].pc = "saving" /\ req'[r].pc = "idle") =>
         /\ snapshot'.state = "valid"
         /\ req[r].kind \in {"upload", "process"}
              => req[r].id \in SnapshotIds(snapshot')
         /\ req[r].kind = "delete" => req[r].id \notin SnapshotIds(snapshot')
         /\ (init'.pc = "done" /\ \A q \in Req : req'[q].pc # "saving")
              => snapshot'.records = CacheValues(heap', cache')]_vars

(* C9: a metadata.json that was unreadable at startup is never replaced:   *)
(* no put, remove or cleanup overwrites it.                                *)
C9_CorruptSnapshotNeverOverwritten ==
  boot = "corrupt" => snapshot.state = "corrupt"

(* C10: the load completes before the Catalog is used.  With a valid       *)
(* metadata.json at startup, its record resolves whenever the server       *)
(* accepts requests and stays in every metadata.json written afterwards    *)
(* (until a DELETE removes it); with none at startup, the file exists once *)
(* initialize() has finished.                                              *)
C10_LoadCompletesBeforeUse ==
  /\ (boot = "valid" /\ OldRecord.fileId \notin deleted
        /\ ~Deleting(OldRecord.fileId)) =>
       /\ server = "listening" => OldRecord.fileId \in DOMAIN cache
       /\ snapshot.state = "valid" => OldRecord.fileId \in SnapshotIds(snapshot)
  /\ (boot = "absent" /\ init.pc = "done") => snapshot.state # "absent"

(* C11: a DELETE removes the record from the Catalog only after it has     *)
(* tried to remove the raw file and the processed file the record names:   *)
(* at the step that takes the record out of the cache, the call has        *)
(* unlinked the record's rawPath and, when the record has a processedPath, *)
(* that very path.                                                         *)
C11_FilesRemovedBeforeRecord ==
  [][\A r \in Req :
       (/\ req[r].kind = "delete"
        /\ req[r].pc \in {"unlinkRaw", "unlinkProcessed"}
        /\ req'[r].pc = "saving"
        /\ req[r].id \in DOMAIN cache)
         => LET rec == heap[cache[req[r].id]]
            IN /\ rec.rawPath \notin DOMAIN rawFiles'
               /\ rec.processedPath # NoFile
                    => /\ req[r].pc = "unlinkProcessed"
                       /\ req[r].out = rec.processedPath]_vars

(* C12: a DELETE for an id that has no record answers 404 and changes      *)
(* nothing: the step that answers it leaves the cache, the record objects, *)
(* metadata.json and both directories as they were and starts no write of  *)
(* metadata.json; and a DELETE goes past its lookup only for an id that    *)
(* has a record.                                                           *)
C12_DeleteUnknownChangesNothing ==
  [][/\ (last' # last /\ last' = [kind |-> "delete", status |-> 404])
          => /\ UNCHANGED <<cache, heap, snapshot, rawFiles, procFiles>>
             /\ WritesInFlight' = WritesInFlight
     /\ \A r \in Req :
          (req[r].pc = "idle" /\ req'[r].kind = "delete")
            => req'[r].id \in DOMAIN cache]_vars

(* A DELETE has been answered 404 while files and records exist.           *)
C12_Witness ==
  /\ last = [kind |-> "delete", status |-> 404]
  /\ DOMAIN rawFiles # {}
  /\ DOMAIN cache # {}

(* A DELETE for id is in flight.                                           *)
DeleteInFlight(id) ==
  \E r \in Req : req[r].kind = "delete" /\ req[r].id = id

(* The upload that created the record of id has returned.                  *)
Uploaded(id) ==
  /\ id \in DOMAIN cache
  /\ cache[id] = <<"upload", id>>
  /\ \A r \in Req : ~(req[r].kind = "upload" /\ req[r].id = id)

(* C13: from the return of a successful upload until the record is deleted *)
(* or older than the TTL, a fetch of its raw file answers 200 with the     *)
(* uploaded bytes (same upload, same size), whatever process calls ran.    *)
C13_RawRoundTrip ==
  \A id \in FileIds :
    (/\ Uploaded(id)
     /\ id \notin deleted
     /\ ~DeleteInFlight(id)
     /\ now - heap[cache[id]].timestamp <= Ttl)
      => FetchRaw(heap[cache[id]].rawPath) =
           [status |-> 200, size |-> heap[cache[id]].size, src |-> id]

(* The entries of the declared types (part_008).                           *)
WellTyped(operations) ==
  \A i \in 1..Len(operations) :
    \/ operations[i].type \in {"resize", "crop"}
    \/ /\ operations[i].type = "convert"
       /\ "format" \in DOMAIN operations[i].params
       /\ operations[i].params.format \in {"jpeg", "png", "webp"}
    \/ /\ operations[i].type = "quality"
       /\ "quality" \in DOMAIN operations[i].params

(* The largest element of a non-empty set of numbers.                      *)
Largest(S) == CHOOSE n \in S : \A m \in S : m <= n

LastConvertFormat(operations) ==
  LET at == {i \in 1..Len(operations) : operations[i].type = "convert"}
  IN IF at = {} THEN "jpeg" ELSE operations[Largest(at)].params.format

LastQualityLevel(operations) ==
  LET at == {i \in 1..Len(operations) : operations[i].type = "quality"}
  IN IF at = {} THEN 80 ELSE operations[Largest(at)].params.quality

IsGeometric(operation) == operation.type \in {"resize", "crop"}

(* The process call on a body with a list has returned.                    *)
Processed ==
  /\ call.fn = "process"
  /\ call.pc = "returned"
  /\ call.arg.fileId = "a"
  /\ call.arg.operations.kind = "list"

(* C14: a list of well-typed entries is encoded in the format of its last  *)
(* Convert entry (jpeg when it has none) at the level of its last Quality  *)
(* entry (80 when it has none); the empty list is accepted and gives jpeg  *)
(* at 80; and where the Convert and Quality entries stand among the Crop   *)
(* and Resize entries changes nothing: the calls before the encoder are    *)
(* those of the list with the Convert and Quality entries taken out.       *)
C14_LastConvertAndQualityWin ==
  (Processed /\ WellTyped(call.arg.operations.val)) =>
    LET operations == call.arg.operations.val
        calls == call.out.calls
        encoder == calls[Len(calls)]
    IN /\ call.out.status = 200
       /\ encoder.fn = LastConvertFormat(operations)
       /\ encoder.args[1] = LastQualityLevel(operations)
       /\ operations = <<>> => encoder.fn = "jpeg" /\ encoder.args[1] = 80
       /\ SubSeq(calls, 1, Len(calls) - 1) =
            ApplyOperations(<<SharpCall("rotate", <<>>, "")>>,
                            SelectSeq(operations, IsGeometric))

(* The list [Resize, Convert webp, Quality 50, Convert png] has been       *)
(* encoded as png at 50.                                                   *)
C14_Witness ==
  /\ Processed
  /\ call.arg.operations.val =
       << [type |-> "resize",  params |-> [width |-> 100, height |-> 100]],
          [type |-> "convert", params |-> [format |-> "webp"]],
          [type |-> "quality", params |-> [quality |-> 50]],
          [type |-> "convert", params |-> [format |-> "png"]] >>
  /\ call.out.calls[Len(call.out.calls)] = SharpCall("png", <<50, 9>>, "")

(* The transform an entry of type resize or crop asks for.                 *)
Transform(operation) ==
  IF operation.type = "resize"
  THEN SharpCall("resize", <<GetNum(operation.params, "width"),
                             GetNum(operation.params, "height")>>,
                 IF "fit" \in DOMAIN operation.params
                 THEN operation.params.fit ELSE "cover")
  ELSE SharpCall("extract", <<Round(operation.params.x), Round(operation.params.y),
                              Round(operation.params.width),
                              Round(operation.params.height)>>, "")

(* The Crop and Resize entries of a list, as transforms, in list order.    *)
Geometry(operations) ==
  LET geo == SelectSeq(operations, IsGeometric)
  IN [i \in 1..Len(geo) |-> Transform(geo[i])]

(* The lists with the entries of `operations` in another order.           *)
Reorderings(operations) ==
  LET n == Len(operations)
  IN {[i \in 1..n |-> operations[p[i]]] :
        p \in {q \in [1..n -> 1..n] : \A i, j \in 1..n : q[i] = q[j] => i = j}}

(* C15: the geometric transforms performed on the image are the Crop and   *)
(* Resize entries of the list, each once and in list order, after the      *)
(* orientation normalisation and before the encoding; and a list with the  *)
(* same entries whose Crop and Resize entries stand in another order has   *)
(* another sequence of transforms performed.                               *)
C15_GeometryInCallerOrder ==
  Processed =>
    LET operations == call.arg.operations.val
        calls == call.out.calls
    IN /\ calls[1] = SharpCall("rotate", <<>>, "")
       /\ calls[Len(calls)].fn \in {"jpeg", "png", "webp"}
       /\ SharpRuns(calls) = Geometry(operations)
       /\ \A other \in Reorderings(operations) :
            Geometry(other) # Geometry(operations)
              => SharpRuns(ProcessImage(other)) # SharpRuns(calls)

(* The same at the level of the calls alone: the resize and extract calls  *)
(* made on the pipeline are the transforms of the entries, in list order.  *)
CallsInCallerOrder ==
  Processed =>
    LET calls == call.out.calls
    IN SubSeq(calls, 2, Len(calls) - 1) = Geometry(call.arg.operations.val)

(* The signature registered for a type, as the claim names them.           *)
RegisteredSignature(mime) ==
  CASE mime = "image/jpeg" -> <<255, 216, 255>>
    [] mime = "image/png"  -> <<137, 80, 78, 71, 13, 10, 26, 10>>
    [] mime = "image/webp" -> <<82, 73, 70, 70>>
    [] mime = "image/gif"  -> <<71, 73, 70, 56>>

LeadingBytesMatch(buffer, mime) ==
  LET sig == RegisteredSignature(mime)
  IN Len(buffer) >= Len(sig) /\ SubSeq(buffer, 1, Len(sig)) = sig

(* C16: validateFileSignature answers true exactly when the sniffed type   *)
(* is one of the four allowed types and the buffer starts with the         *)
(* signature registered for it; an accepted buffer with any one byte of    *)
(* that signature changed is refused; and the call changes nothing else.   *)
C16_SignatureDecides ==
  [][(call.fn = "validateFileSignature" /\ call'.pc = "returned") =>
       LET buffer == call.arg
           mime == FromBuffer(buffer)
       IN /\ call'.out =
               (/\ mime \in {"image/jpeg", "image/png", "image/webp", "image/gif"}
                /\ LeadingBytesMatch(buffer, mime))
          /\ call'.out =>
               \A i \in 1..Len(RegisteredSignature(mime)) :
                 \A v \in 0..255 :
                   v # buffer[i] =>
                     ~ValidateFileSignature([buffer EXCEPT ![i] = v])
          /\ UNCHANGED <<now, nextUuid, rawFiles, procFiles, snapshot, heap,
                         cache, init, server, sweep, req, last, boot,
                         deleted, rejected>>]_vars

(* A buffer that is sniffed as webp ("WEBP" at offset 8) and whose RIFF    *)
(* header has a changed byte has been refused.                             *)
C16_Witness ==
  /\ call.fn = "validateFileSignature"
  /\ call.pc = "returned"
  /\ FromBuffer(call.arg) = "image/webp"
  /\ SubSeq(call.arg, 2, 4) = <<73, 70, 70>>
  /\ ~call.out

C18_RecordCarriesSniffedType ==
  call.fn = "upload" =>
    \A id \in DOMAIN cache :
      cache[id] = <<"upload", id>>
        => heap[cache[id]].mimeType = FromBuffer(call.arg.buffer)

(* C19: a process call that fails in decoding, transforming or encoding is *)
(* answered as a processing failure (500), no output file of the call is   *)
(* in the processed directory afterwards, and the record is as it was.     *)
C19_FailedProcessLeavesNothing ==
  [][\A r \in Req :
       (/\ req[r].kind = "process"
        /\ req[r].pc \in {"processing", "encoding"}
        /\ req'[r].pc = "idle")
         => /\ last' = [kind |-> "process", status |-> 500]
            /\ req[r].out \notin DOMAIN procFiles'
            /\ UNCHANGED <<heap, cache>>]_vars

(* C20: an upload or a process call whose write of metadata.json fails is  *)
(* answered with an error and leaves nothing: after the upload neither its *)
(* raw file nor a record of it in the cache, after the process call        *)
(* neither its output file nor its processedPath and operations in the     *)
(* record.                                                                 *)
C20_FailedWriteLeavesNothing ==
  [][\A r \in Req :
       (/\ req[r].pc = "saving"
        /\ req'[r].pc = "idle"
        /\ last'.status = 500)
         => /\ req[r].kind = "upload" =>
                 /\ req[r].file \notin DOMAIN rawFiles'
                 /\ req[r].id \notin DOMAIN cache'
            /\ req[r].kind = "process" =>
                 /\ req[r].out \notin DOMAIN procFiles'
                 /\ heap'[req[r].meta].processedPath # req[r].out]_vars

(* A file of dir that was older than the TTL at the time `at`.             *)
ExpiredFiles(dir, at) == {f \in DOMAIN dir : at - dir[f].mtime > Ttl}

(* C21: one file that cannot be inspected or deleted does not stop a run   *)
(* of the cleanup job: when the run ends, no file that was older than the  *)
(* TTL at the start of the run is left in the raw or the processed        *)
(* directory (a file that a request removed meanwhile is gone anyway).     *)
C21_SweepSurvivesOneFailure ==
  [][(sweep.pc # "idle" /\ sweep'.pc = "idle") =>
       /\ ExpiredFiles(rawFiles', sweep.now) = {}
       /\ ExpiredFiles(procFiles', sweep.now) = {}]_vars

(* The file the cleanup job has inspected in this step, if any.            *)
Inspected == {f \in sweep.todo : sweep'.pc = sweep.pc /\ f \notin sweep'.todo}

(* The record of id is older than the TTL at the time `at`.                *)
RecordExpired(id, at) ==
  id \in DOMAIN cache /\ at - heap[cache[id]].timestamp > Ttl

(* C22: expiry goes by the record's creation time only.  No step changes   *)
(* the timestamp of a record, and when the cleanup job inspects a file,    *)
(* raw or processed, of a record that is older than the TTL, it removes    *)
(* the file, whenever the file itself was written.                         *)
C22_ExpiryByCreationTime ==
  [][/\ \A id \in (DOMAIN cache) \cap (DOMAIN cache') :
          heap'[cache'[id]].timestamp = heap[cache[id]].timestamp
     /\ sweep.pc = "raw" =>
          \A f \in Inspected \cap DOMAIN rawFiles :
            RecordExpired(rawFiles[f].src, sweep.now) => f \notin DOMAIN rawFiles'
     /\ sweep.pc = "processed" =>
          \A f \in Inspected \cap DOMAIN procFiles :
            RecordExpired(procFiles[f].src, sweep.now)
              => f \notin DOMAIN procFiles']_vars

(* C23: cleanup(ttl) called again at the same time as the call before it,  *)
(* with no record added in between, removes nothing: it returns 0, leaves  *)
(* the cache as it is and starts no write of metadata.json.                *)
C23_CleanupIdempotent ==
  [][(/\ call.fn = "cleanup"
      /\ call.pc = "called"
      /\ call'.pc # "called"
      /\ call.out.prevAt = now)
       => /\ call'.out.deleted = 0
          /\ call'.pc = "returned"
          /\ UNCHANGED <<cache, snapshot>>]_vars

(* A second call has returned at the time of a first that removed records. *)
C23_Witness ==
  /\ call.fn = "cleanup"
  /\ call.pc = "returned"
  /\ call.out.prevAt = call.out.at
  /\ call.out.prevDeleted > 0

(* The entries of cache c whose record is no older than ttl at time `at`.   *)
KeptIds(c, at, ttl) == {id \in DOMAIN c : at - heap[c[id]].timestamp <= ttl}

(* C24: cleanup(ttl) removes from the cache exactly the records of age     *)
(* above ttl (a record of age ttl stays) and counts them; it writes        *)
(* metadata.json once, after the loop and with the records left, when the  *)
(* count is positive, and not at all when it is 0.                         *)
C24_CleanupRemovesExactlyExpired ==
  [][/\ (call.fn = "cleanup" /\ call.pc = "called" /\ call'.pc # "called")
         => /\ DOMAIN cache' = KeptIds(cache, now, call.arg)
            /\ \A id \in DOMAIN cache' : cache'[id] = cache[id]
            /\ call'.out.deleted =
                 Cardinality(DOMAIN cache) - Cardinality(DOMAIN cache')
            /\ call'.pc = (IF call'.out.deleted > 0 THEN "saving" ELSE "returned")
            /\ call'.out.writes = 0
            /\ snapshot' = snapshot
     /\ (call.fn = "cleanup" /\ call.pc = "saving" /\ call'.pc = "returned")
         => /\ call'.out.writes = 1
            /\ call'.out.deleted = call.out.deleted
            /\ snapshot' = Valid(CacheValues(heap, cache))
            /\ cache' = cache
     /\ (call.fn = "cleanup" /\ call.pc # "saving") => snapshot' = snapshot]_vars

(* A call has removed two records in one batch with one write and kept a   *)
(* record whose age equals the ttl.                                        *)
C24_Witness ==
  /\ call.fn = "cleanup"
  /\ call.pc = "returned"
  /\ call.out.deleted >= 2
  /\ call.out.writes = 1
  /\ \E id \in DOMAIN cache : call.out.at - heap[cache[id]].timestamp = call.arg

(* processedPath and operations of a record object.                        *)
Result(h, ref) == <<h[ref].processedPath, h[ref].operations>>

(* C25: of two process calls for one id, the last to update the record     *)
(* wins as a whole.  A step changes processedPath or operations of a       *)
(* record only as the update of one process call, which sets both to that  *)
(* call's output path and operation list, with the output file on disk; so *)
(* the record never holds the output of one call beside the list of the    *)
(* other.  And when a process call answers 200 (no DELETE of the id being  *)
(* around), the record is in the cache and names a processed file that     *)
(* exists and was made from the upload of that id.                         *)
C25_LastProcessWins ==
  [][/\ \A ref \in DOMAIN heap :
          Result(heap', ref) # Result(heap, ref) =>
            \E r \in Req :
              /\ req[r].kind = "process" /\ req[r].pc = "encoding"
              /\ req'[r].pc = "saving"
              /\ req[r].meta = ref
              /\ Result(heap', ref) = <<req[r].out, req[r].ops>>
              /\ req[r].out \in DOMAIN procFiles'
     /\ \A r \in Req :
          (/\ req[r].kind = "process" /\ req[r].pc = "saving"
           /\ req'[r].pc = "idle" /\ last'.status = 200
           /\ req[r].id \notin deleted /\ ~DeleteInFlight(req[r].id))
            => /\ req[r].id \in DOMAIN cache'
               /\ cache'[req[r].id] = req[r].meta
               /\ heap'[req[r].meta].processedPath \in DOMAIN procFiles'
               /\ procFiles'[heap'[req[r].meta].processedPath].src = req[r].id]_vars

(* Two process calls for one id with different operation lists have both   *)
(* updated the record; the first to update is still in flight, the record  *)
(* holds the output and the list of the other, which has answered 200.     *)
C25_Witness ==
  /\ last = [kind |-> "process", status |-> 200]
  /\ \E r \in Req :
       /\ req[r].kind = "process" /\ req[r].pc = "saving"
       /\ heap[req[r].meta].processedPath \notin {NoFile, req[r].out}
       /\ heap[req[r].meta].operations # req[r].ops
       /\ heap[req[r].meta].processedPath \in DOMAIN procFiles

(* C26: a process request is checked body first, then id, and a refused    *)
(* request changes nothing.  The step that refuses one answers 400 when    *)
(* the body lacks the fileId or the operations or the operations are no    *)
(* list, whether or not the fileId has a record, and 404 otherwise (the    *)
(* fileId then has no record); it leaves the cache, the records,           *)
(* metadata.json and both directories as they were and draws no file name. *)
(* A request goes past the checks only with a valid body and a known id.   *)
C26_ProcessChecksInOrder ==
  [][/\ (req' = req /\ last' # last /\ last'.kind = "process")
         => /\ last'.status = (IF InvalidBody(call.arg) THEN 400 ELSE 404)
            /\ ~InvalidBody(call.arg) => IdOf(call.arg.fileId) \notin DOMAIN cache
            /\ UNCHANGED <<cache, heap, snapshot, rawFiles, procFiles, nextUuid>>
            /\ WritesInFlight' = WritesInFlight
     /\ \A r \in Req :
          (req[r].pc = "idle" /\ req'[r].kind = "process")
            => /\ ~InvalidBody(call.arg)
               /\ IdOf(call.arg.fileId) \in DOMAIN cache
               /\ req'[r].id = IdOf(call.arg.fileId)]_vars

(* A request that names an id without a record and carries operations that *)
(* are no list has been answered 400, with files and records around.       *)
C26_Witness ==
  /\ call.fn = "processRequest"
  /\ last = [kind |-> "process", status |-> 400]
  /\ call.arg.operations.kind = "object"
  /\ call.arg.fileId \notin {Undefined, ""}
  /\ IdOf(call.arg.fileId) \notin DOMAIN cache
  /\ DOMAIN rawFiles # {}
  /\ DOMAIN cache # {}

(* C27: a process call that finds the raw file of its record missing, at   *)
(* its check or when the image library opens the file, answers 404, writes *)
(* no output file and leaves the record as it is; it does not answer with  *)
(* a processing failure.                                                   *)
C27_MissingRawIsNotFound ==
  [][\A r \in Req :
       (/\ req[r].kind = "process"
        /\ req[r].pc \in {"access", "processing"}
        /\ heap[req[r].meta].rawPath \notin DOMAIN rawFiles
        /\ req'[r].pc = "idle")
         => /\ last' = [kind |-> "process", status |-> 404]
            /\ UNCHANGED <<procFiles, heap, cache>>]_vars

StoredBytes == DirBytes(rawFiles) + DirBytes(procFiles)

(* C29: checkDiskQuota answers true exactly when the bytes of the files    *)
(* under raw/ and processed/, and of no other file, are below the quota:   *)
(* an upload passes its quota check if and only if they are.               *)
C29_QuotaCountsStoredFilesOnly ==
  [][\A r \in Req :
       (req[r].pc = "quota" /\ req'[r].pc # "quota")
         => (req'[r].pc = "validate" <=> StoredBytes < Quota)]_vars

(* C30: no character of the originalname that is outside [a-zA-Z0-9._-]    *)
(* gets into the name under which the upload is stored: the part of the    *)
(* stored name taken from the originalname holds safe characters only.     *)
C30_StoredNameIsSanitized ==
  (call.fn = "filename" /\ call.pc = "returned")
    => /\ \A i \in 1..Len(call.out.ext) : call.out.ext[i] \in SafeChars
       /\ SanitizeFilename(call.out.ext) = call.out.ext

(* C31: sanitizeFilename keeps the length and the place of each character, *)
(* keeps every character of [a-zA-Z0-9._-] and puts "_" for every other;   *)
(* the result holds allowed characters only, equals the input when the     *)
(* input holds allowed characters only (the empty name too), and a second  *)
(* application changes nothing.                                            *)
C31_SanitizeReplacesInPlace ==
  (call.fn = "sanitizeFilename" /\ call.pc # "called") =>
    LET in == call.arg
        out == call.out.once
    IN /\ Len(out) = Len(in)
       /\ \A i \in 1..Len(in) :
            out[i] = (IF in[i] \in SafeChars THEN in[i] ELSE "_")
       /\ \A i \in 1..Len(out) : out[i] \in SafeChars
       /\ (\A i \in 1..Len(in) : in[i] \in SafeChars) => out = in
       /\ call.pc = "returned twice" => call.out.twice = out

(* A name with a character outside the class after an allowed one has gone *)
(* through the function twice.                                             *)
C31_Witness ==
  /\ call.fn = "sanitizeFilename"
  /\ call.pc = "returned twice"
  /\ call.arg = <<"a", "$", ".", " ">>
  /\ call.out.twice = <<"a", "_", ".", "_">>

(* The extension the claim gives a format: jpg for jpeg, the name itself   *)
(* for the other formats the map knows, jpg for every other name.          *)
ExtensionOf(format) ==
  CASE format = "jpeg" -> "jpg"
    [] format \in {"png", "webp", "gif"} -> format
    [] OTHER -> "jpg"

(* C32: getExtensionFromFormat gives jpg for jpeg, png for png, webp for   *)
(* webp and jpg for every name it does not know, whatever the string: the  *)
(* extension a process call draws for its output is that of the format the *)
(* route has determined.                                                   *)
C32_ExtensionOfFormat ==
  Processed => call.out.ext = ExtensionOf(call.out.format)

KnownType(operation) ==
  operation.type \in {"resize", "crop", "convert", "quality"}

(* C33: an entry of unknown type is passed over and the call goes on: the  *)
(* call succeeds, and the calls made on the pipeline, the encoder and the  *)
(* name of the output are those of the list without that entry, so the     *)
(* entries after it are applied.                                           *)
C33_UnknownTypeIgnored ==
  Processed =>
    LET operations == call.arg.operations.val
        known == SelectSeq(operations, KnownType)
    IN /\ call.out.status = 200
       /\ call.out.calls = ProcessImage(known)
       /\ call.out.format = RouteOutputFormat("jpeg", known)
       /\ call.out.ext = GetExtensionFromFormat(RouteOutputFormat("jpeg", known))

(* The list [Crop, blur, Resize, Convert png] has been processed: crop,    *)
(* then resize, then the png encoder.                                      *)
C33_Witness ==
  /\ Processed
  /\ call.arg.operations.val =
       << [type |-> "crop",    params |-> [x |-> 3, y |-> 0, width |-> 20, height |-> 21]],
          [type |-> "blur",    params |-> [sigma |-> 2]],
          [type |-> "resize",  params |-> [width |-> 100, height |-> 100]],
          [type |-> "convert", params |-> [format |-> "png"]] >>
  /\ Len(call.out.calls) = 4
  /\ call.out.calls[2].fn = "extract"
  /\ call.out.calls[3].fn = "resize"
  /\ call.out.calls[4].fn = "png"

(* C34: the records of the Catalog change through the Catalog only.  The   *)
(* Catalog's operations (load, set, delete, cleanup) put entries into the  *)
(* cache and take entries out of it and never write into a record object;  *)
(* so no step writes into a record object that the cache holds.            *)
C34_RecordsChangeThroughCatalogOnly ==
  [][\A id \in DOMAIN cache : heap'[cache[id]] = heap[cache[id]]]_vars

(* The fields of a record a process call has no business with.             *)
Identity(record) ==
  <<record.fileId, record.originalName, record.size, record.mimeType,
    record.rawPath, record.timestamp>>

(* C35: a process call changes processedPath and operations of the record  *)
(* it addresses and nothing else in the Catalog.  In every step of a       *)
(* process call, each record keeps its fileId, originalName, size,         *)
(* mimeType, rawPath and timestamp, every record but the addressed one     *)
(* stays as it is, and the cache keeps its entries (the step may put the   *)
(* addressed record back under its id).                                    *)
C35_ProcessChangesResultOnly ==
  [][\A r \in Req :
       (req'[r] # req[r] /\ "process" \in {req[r].kind, req'[r].kind}) =>
         /\ \A ref \in DOMAIN heap :
              /\ ref \in DOMAIN heap'
              /\ Identity(heap'[ref]) = Identity(heap[ref])
              /\ ref # req[r].meta => heap'[ref] = heap[ref]
         /\ heap' # heap => heap[req[r].meta].fileId = req[r].id
         /\ \A id \in DOMAIN cache : id \in DOMAIN cache' /\ cache'[id] = cache[id]
         /\ DOMAIN cache' \subseteq (DOMAIN cache) \cup {req[r].id}]_vars

(* A process call has answered 200 while the Catalog holds two records,    *)
(* the addressed one with a processed file.                                *)
C35_Witness ==
  /\ last = [kind |-> "process", status |-> 200]
  /\ Cardinality(DOMAIN cache) >= 2
  /\ \E id \in DOMAIN cache : heap[cache[id]].processedPath # NoFile

(* C36: the output is named after the format it is encoded in.  For every  *)
(* list, the extension of the format the route has determined is the       *)
(* extension of the format of the encoder the pipeline has called.         *)
C36_ExtensionMatchesEncoding ==
  Processed =>
    LET calls == call.out.calls
    IN ExtensionOf(call.out.format) = ExtensionOf(calls[Len(calls)].fn)

(* C37: a record is destroyed by one delete call.  A delete call that      *)
(* writes the snapshot for its removal and answers 204 is the first one to *)
(* do so for its fileId: no other call has answered 204 for that fileId.   *)
C37_OneDeleteSucceeds ==
  [][\A r \in Req :
       (/\ req[r].kind = "delete"
        /\ req[r].pc = "saving"
        /\ req'[r].pc = "idle"
        /\ last' = [kind |-> "delete", status |-> 204])
       => req[r].id \notin deleted]_vars

(* C38: the quota check fails closed.  An upload passes the quota check    *)
(* only when the files under the storage directory, all counted, take less *)
(* than the quota; a scan that could not count them all lets none pass.    *)
C38_QuotaFailsClosed ==
  [][\A r \in Req :
       (req[r].pc = "quota" /\ req'[r].pc = "validate")
       => CalculateDirectorySize < Quota]_vars
====
